---- MODULE Spec2Model ----
(***************************************************************************)
(* Paper manager: the record store (sqlite table "papers"), the handlers   *)
(* of the Tk application that validate the forms before they call the      *)
(* store, and the later variants of the store and of the save handler.     *)
(*                                                                         *)
(* Text values are sequences of one-character strings; SQL NULL / Python   *)
(* None in a text column is the value Null.  A Python return value is a    *)
(* record: [py |-> "None"], [py |-> "int", v |-> n], [py |-> "bool", ...], *)
(* [py |-> "raise", exc |-> ...].                                          *)
(***************************************************************************)
EXTENDS Integers, Sequences, FiniteSets, TLC

VARIABLES
    papers,     \* the rows of table papers (a set of records, one per id)
    seq,        \* sqlite_sequence.seq of papers: the largest id ever assigned
    clock,      \* datetime.now(), in seconds
    last,       \* the store call made by the latest step, and what it returned
    msg,        \* the dialogs shown by the latest handler, in order
    edit_id,    \* edit_id_label: Dash or the id loaded in the edit form
    edit_listbox,   \* the rows of text shown in the edit tab's listbox
    mem_papers, \* InMemoryPaperStore.papers: a list of dicts
    entries,    \* the form as the latest save or update handler read it
    range_tree,     \* the rows shown in the range search tab
    fulltext_tree,  \* the rows shown in the keyword search tab
    search_results, \* the rows of main.py's search page listbox
    text_widget,    \* the preview Text widget filled last: its content
                    \* and the places that carry the highlight tag
    store_class,    \* the store class the running program constructed
    list_tree,      \* the rows shown in the list tab
    edit_paper_ids,     \* the ids kept beside the rows of edit_listbox
    edit_papers_data,   \* the records kept by id for the edit tab
    has_table,      \* the database file holds the table papers
    db_lock,        \* the lock another connection holds on the file
                    \* ("none", "reserved": writers wait, "exclusive": readers too)
    nav_checked,    \* MainWindow: the keys of the checked sidebar buttons
    shown_page,     \* MainWindow: the page content_stack shows
    highlight_loop, \* _show_fulltext_preview: the widget it fills, where
                    \* the while loop of _highlight_keyword stands, and the
                    \* row it read
    issued,         \* the ids add_paper has returned so far
    backup_file,    \* the copy of papers.db that backup_database wrote
    indexes,        \* the indexes of models.Database the database file holds
    init_pc,        \* Database._init_db: the statement that comes next
                    \* ("idle": it is not running, "index_year",
                    \* "index_title")
    delete_pc       \* _delete_paper: where the handler stands ("idle",
                    \* "showinfo": it waits in the dialog that reports the
                    \* delete, "refresh_list": before _refresh_list())

\* the list tab, the id lists of the edit tab, the database file and the
\* main window
tabKept ==
    <<list_tree, edit_paper_ids, edit_papers_data, has_table,
      nav_checked, shown_page, highlight_loop, issued, backup_file,
      delete_pc, init_pc>>

tabVars == <<tabKept, indexes>>

moreVars == <<tabVars, db_lock>>

vars ==
    <<papers, seq, clock, last, msg, edit_id, edit_listbox, mem_papers, entries,
      range_tree, fulltext_tree, search_results, text_widget, store_class,
      moreVars>>

\* the search pages, the preview window and the choice of store class
restVars ==
    <<range_tree, fulltext_tree, search_results, text_widget, store_class,
      moreVars>>

\* what the application holds besides the table
appVars ==
    <<msg, edit_id, edit_listbox, mem_papers, entries,
      range_tree, fulltext_tree, search_results, text_widget, store_class,
      moreVars>>

\* what a caller of the store API holds besides the table and the lock of
\* the file
callVars ==
    <<msg, edit_id, edit_listbox, mem_papers, entries,
      range_tree, fulltext_tree, search_results, text_widget, store_class,
      tabVars>>

\* everything but the lock of the file
faultFrame == <<papers, seq, clock, last, callVars>>

----------------------------------------------------------------------------
(* Bounds of the model *)

MaxAdds == 2
MaxClock == 1

----------------------------------------------------------------------------
(* Text *)

\* the characters used, in the order of their UTF-8 bytes (sqlite BINARY
\* collation is memcmp)
Alphabet ==
    <<" ", "%", "+", "-",
      "0", "1", "2", "3", "4", "5", "6", "7", "8", "9",
      "A", "B", "C", "D", "E", "F", "G", "H", "I", "J", "K", "L", "M",
      "N", "O", "P", "Q", "R", "S", "T", "U", "V", "W", "X", "Y", "Z",
      "[", "]", "_",
      "a", "b", "c", "d", "e", "f", "g", "h", "i", "j", "k", "l", "m",
      "n", "o", "p", "q", "r", "s", "t", "u", "v", "w", "x", "y", "z",
      "É", "é", "U+0130", "U+0307">>

\* the place of each character in that order
RankOf ==
    [c \in {Alphabet[i] : i \in DOMAIN Alphabet} |->
        CHOOSE i \in DOMAIN Alphabet : Alphabet[i] = c]

Rank(c) == RankOf[c]

Null == <<"NULL">>

NullInt == 0 - 1    \* SQL NULL in an INTEGER column

\* the 26 letters sqlite folds: upper case, and lower case in the same
\* order
AsciiUpper ==
    <<"A", "B", "C", "D", "E", "F", "G", "H", "I", "J", "K", "L", "M",
      "N", "O", "P", "Q", "R", "S", "T", "U", "V", "W", "X", "Y", "Z">>

AsciiLower ==
    <<"a", "b", "c", "d", "e", "f", "g", "h", "i", "j", "k", "l", "m",
      "n", "o", "p", "q", "r", "s", "t", "u", "v", "w", "x", "y", "z">>

\* the lower case of one character as sqlite's LIKE folds it: every ASCII
\* letter, and no other character
AsciiFold ==
    [c \in {AsciiUpper[i] : i \in DOMAIN AsciiUpper} |->
        AsciiLower[CHOOSE i \in DOMAIN AsciiUpper : AsciiUpper[i] = c]]

Lower(c) == IF c \in DOMAIN AsciiFold THEN AsciiFold[c] ELSE c

RECURSIVE StrLess(_, _)
\* memcmp order of two text values
StrLess(a, b) ==
    IF b = <<>> THEN FALSE
    ELSE IF a = <<>> THEN TRUE
    ELSE IF Head(a) # Head(b) THEN Rank(Head(a)) < Rank(Head(b))
    ELSE StrLess(Tail(a), Tail(b))

\* sqlite ascending order of a text column: NULL first, then memcmp
ColLess(a, b) ==
    IF a = Null THEN b # Null
    ELSE IF b = Null THEN FALSE
    ELSE StrLess(a, b)

RECURSIVE LikeMatch(_, _)
\* sqlite  s LIKE p : % any run, _ any one character, ASCII case folded
LikeMatch(p, s) ==
    IF p = <<>> THEN s = <<>>
    ELSE IF Head(p) = "%"
         THEN LikeMatch(Tail(p), s) \/ (s # <<>> /\ LikeMatch(p, Tail(s)))
         ELSE /\ s # <<>>
              /\ (Head(p) = "_" \/ Lower(Head(p)) = Lower(Head(s)))
              /\ LikeMatch(Tail(p), Tail(s))

\* column LIKE '%' || x || '%' ; NULL LIKE ... is NULL, which WHERE rejects.
\* Without a % in x the pattern matches when x matches some run of Len(x)
\* characters of the column.
Like(col, x) ==
    /\ col # Null
    /\ IF \E k \in 1..Len(x) : x[k] = "%"
       THEN LikeMatch(<<"%">> \o x \o <<"%">>, col)
       ELSE \E i \in 0..(Len(col) - Len(x)) :
               LikeMatch(x, SubSeq(col, i + 1, i + Len(x)))

RECURSIVE LStrip(_)
LStrip(s) == IF s # <<>> /\ Head(s) = " " THEN LStrip(Tail(s)) ELSE s

RECURSIVE RStrip(_)
RStrip(s) ==
    IF s # <<>> /\ s[Len(s)] = " " THEN RStrip(SubSeq(s, 1, Len(s) - 1)) ELSE s

\* str.strip()
Strip(s) == RStrip(LStrip(s))

----------------------------------------------------------------------------
(* Python values *)

None == [py |-> "None"]
PyInt(n) == [py |-> "int", v |-> n]
PyBool(b) == [py |-> "bool", v |-> b]
Raise(e) == [py |-> "raise", exc |-> e]

\* no file at backup_path
NoBackup == [papers |-> {}, seq |-> -1]

\* _highlight_keyword is not running
LoopIdle ==
    [pc |-> "idle", widget |-> "none", keyword |-> <<>>, start_pos |-> 0,
     paper |-> None]

NoCall == [op |-> "none", ret |-> None]
Call(op, ret) == [op |-> op, ret |-> ret]

\* a messagebox call: which handler made it, which function, which text
Dialog(handler, kind, text) == [handler |-> handler, kind |-> kind, text |-> text]
\* the text of edit_id_label while no record is loaded (a horizontal bar)
Dash == <<"--">>

----------------------------------------------------------------------------
(* The store of paper_manager_base.py: class PaperDatabase *)

Fields(t, te, a, ae, y, tg, s, ft, of) ==
    [title |-> t, title_en |-> te, authors |-> a, authors_en |-> ae,
     year |-> y, tags |-> tg, summary |-> s, fulltext |-> ft,
     original_file |-> of]

MkRow(id, f, c, u) ==
    [id |-> id, title |-> f.title, title_en |-> f.title_en,
     authors |-> f.authors, authors_en |-> f.authors_en, year |-> f.year,
     tags |-> f.tags, summary |-> f.summary, fulltext |-> f.fulltext,
     original_file |-> f.original_file, created_at |-> c, updated_at |-> u]

\* the nine columns a caller supplies
FieldsOf(r) ==
    Fields(r.title, r.title_en, r.authors, r.authors_en, r.year, r.tags,
           r.summary, r.fulltext, r.original_file)

Ids == {r.id : r \in papers}

\* CREATE TABLE IF NOT EXISTS papers: an empty table, no id assigned yet
init_db ==
    /\ papers = {}
    /\ seq = 0

\* the locks a connection can hold on papers.db while a store call runs
LockKinds == {"none", "reserved", "exclusive"}

\* the indexes Database._init_db creates beside the table
IndexNames == {"idx_papers_year", "idx_papers_title"}

\* a schema statement "CREATE ... IF NOT EXISTS" raises "database is
\* locked": under an exclusive lock it cannot read the schema, under a
\* reserved lock it cannot write, which it does when the object is missing
StatementFault(exists) ==
    \/ db_lock = "exclusive"
    \/ db_lock = "reserved" /\ ~exists

\* cursor.execute of a write on a file without the table ("no such table:
\* papers") or with a lock held by another connection ("database is
\* locked", after the timeout of sqlite3.connect) raises
\* sqlite3.OperationalError before anything is written
StoreFault == ~has_table \/ db_lock # "none"

\* cursor.execute of a SELECT raises the same error without the table or
\* under an exclusive lock; a reserved lock lets readers through
ReadFault == ~has_table \/ db_lock = "exclusive"

\* add_paper, update_paper and delete_paper have no try/finally: when
\* execute raises, conn.close() is skipped.  After an IntegrityError the
\* connection has begun its transaction and keeps the reserved lock until
\* the garbage collector frees it, which may be before or after the next
\* call; after an OperationalError it holds no lock.
LeakedLock == {"none", "reserved"}

\* add_paper with title and title_en bound to each other's column
add_paper_swapped(f) ==
    /\ seq < MaxAdds
    /\ IF StoreFault
       THEN /\ last' = Call("add_paper", Raise("OperationalError"))
            /\ UNCHANGED <<papers, seq, db_lock>>
       ELSE IF f.title = Null
       THEN /\ last' = Call("add_paper", Raise("IntegrityError"))
            /\ db_lock' \in LeakedLock
            /\ UNCHANGED <<papers, seq>>
       ELSE /\ papers' = papers \cup
                   {MkRow(seq + 1, [f EXCEPT !.title = f.title_en,
                                             !.title_en = f.title],
                          clock, clock)}
            /\ seq' = seq + 1
            /\ last' = Call("add_paper", PyInt(seq + 1))
            /\ UNCHANGED db_lock
    /\ UNCHANGED clock

\* add_paper that commits the row before the error of a locked file is
\* raised
add_paper_partial(f) ==
    /\ seq < MaxAdds
    /\ IF f.title = Null /\ ~StoreFault
       THEN /\ last' = Call("add_paper", Raise("IntegrityError"))
            /\ db_lock' \in LeakedLock
            /\ UNCHANGED <<papers, seq>>
       ELSE /\ papers' = papers \cup {MkRow(seq + 1, f, clock, clock)}
            /\ seq' = seq + 1
            /\ last' = IF StoreFault
                       THEN Call("add_paper", Raise("OperationalError"))
                       ELSE Call("add_paper", PyInt(seq + 1))
            /\ UNCHANGED db_lock
    /\ UNCHANGED clock

\* INSERT INTO papers ... ; commit ; return cursor.lastrowid
add_paper(f) ==
    /\ seq < MaxAdds
    /\ IF StoreFault
       THEN /\ last' = Call("add_paper", Raise("OperationalError"))
            /\ UNCHANGED <<papers, seq, db_lock>>
       ELSE IF f.title = Null
       THEN \* title TEXT NOT NULL: the INSERT raises, nothing is committed
            /\ last' = Call("add_paper", Raise("IntegrityError"))
            /\ db_lock' \in LeakedLock
            /\ UNCHANGED <<papers, seq>>
       ELSE /\ papers' = papers \cup {MkRow(seq + 1, f, clock, clock)}
            /\ seq' = seq + 1
            /\ last' = Call("add_paper", PyInt(seq + 1))
            /\ UNCHANGED db_lock
    /\ UNCHANGED clock

\* UPDATE papers SET ... , updated_at=? WHERE id=? ; commit ; returns None
update_paper(paper_id, f) ==
    /\ IF StoreFault
       THEN /\ last' = Call("update_paper", Raise("OperationalError"))
            /\ UNCHANGED <<papers, db_lock>>
       ELSE IF f.title = Null /\ paper_id \in Ids
       THEN /\ last' = Call("update_paper", Raise("IntegrityError"))
            /\ db_lock' \in LeakedLock
            /\ UNCHANGED papers
       ELSE /\ papers' = {IF r.id = paper_id
                          THEN MkRow(r.id, f, r.created_at, clock)
                          ELSE r : r \in papers}
            /\ last' = Call("update_paper", None)
            /\ UNCHANGED db_lock
    /\ UNCHANGED <<seq, clock>>

\* DELETE FROM papers WHERE id=? ; commit ; returns None
delete_paper(paper_id) ==
    /\ IF StoreFault
       THEN /\ last' = Call("delete_paper", Raise("OperationalError"))
            /\ UNCHANGED papers
       ELSE /\ papers' = {r \in papers : r.id # paper_id}
            /\ last' = Call("delete_paper", None)
    /\ UNCHANGED <<seq, clock>>

\* SELECT * FROM papers WHERE id=? ; fetchone()
get_paper_by_id(paper_id) ==
    IF paper_id \in Ids THEN CHOOSE r \in papers : r.id = paper_id ELSE None

\* ORDER BY year DESC, title_en ; rows that tie come out in rowid order
OrderYearDescTitleEn(r, q) ==
    IF r.year # q.year THEN r.year > q.year
    ELSE IF r.title_en # q.title_en THEN ColLess(r.title_en, q.title_en)
    ELSE r.id < q.id

RECURSIVE Sorted(_)
\* the rows of S as the sequence in the order of the ORDER BY clause
Sorted(S) ==
    IF S = {} THEN <<>>
    ELSE LET m == CHOOSE r \in S :
                      \A q \in S \ {r} : OrderYearDescTitleEn(r, q)
         IN  <<m>> \o Sorted(S \ {m})

\* SELECT * FROM papers ORDER BY year DESC, title_en
get_all_papers == Sorted(papers)

\* Python truth of an optional int given as a set: None and 0 are false
Truthy(opt) == opt # {} /\ opt # {0}

\* the WHERE clause search_papers builds from the criteria that are truthy;
\* a comparison with a NULL year is NULL, which WHERE rejects
SearchWhere(r, title, authors, year_from, year_to, tags) ==
    /\ title # <<>> => (Like(r.title, title) \/ Like(r.title_en, title))
    /\ authors # <<>> => (Like(r.authors, authors) \/ Like(r.authors_en, authors))
    /\ Truthy(year_from) => r.year # NullInt /\ \A y \in year_from : r.year >= y
    /\ Truthy(year_to) => r.year # NullInt /\ \A y \in year_to : r.year <= y
    /\ tags # <<>> => Like(r.tags, tags)

RECURSIVE ByRowid(_)
\* the rows of S in rowid order
ByRowid(S) ==
    IF S = {} THEN <<>>
    ELSE LET m == CHOOSE r \in S : \A q \in S : r.id <= q.id
         IN  <<m>> \o ByRowid(S \ {m})

\* search_papers without its ORDER BY clause
search_papers_unordered(title, authors, year_from, year_to, tags) ==
    ByRowid({r \in papers :
                SearchWhere(r, title, authors, year_from, year_to, tags)})

\* SELECT * FROM papers WHERE 1=1 [AND ...] ORDER BY year DESC, title_en
search_papers(title, authors, year_from, year_to, tags) ==
    Sorted({r \in papers :
                SearchWhere(r, title, authors, year_from, year_to, tags)})

\* datetime.now() moves on between two calls
Tick ==
    /\ clock < MaxClock
    /\ clock' = clock + 1
    /\ UNCHANGED <<papers, seq, last>>
    /\ UNCHANGED appVars

\* datetime.now() is the local wall clock, without a time zone: between two
\* calls it can also be earlier than before (the end of summer time, a
\* clock that was set back)
ClockBack ==
    /\ clock > 0
    /\ clock' = clock - 1
    /\ UNCHANGED <<papers, seq, last>>
    /\ UNCHANGED appVars

----------------------------------------------------------------------------
(* Callers of the store API: any field set, any id *)

tA == <<"A">>
tB == <<"B">>
tX == <<"x">>

\* field sets a caller of the API may pass; the store itself checks nothing
StoreInputs ==
    {Fields(tA, tB, tX, tX, 2020, <<>>, <<>>, <<>>, <<>>),
     Fields(tB, tA, tX, tX, 2020, <<>>, <<>>, <<>>, <<>>),
     Fields(tB, tA, tX, tX, 2019, <<>>, <<>>, <<>>, <<>>),
     Fields(tA, Null, tX, Null, NullInt, <<"t">>, <<"a", "b">>, <<>>, Null),
     Fields(<<>>, <<>>, <<>>, <<>>, 999, <<>>, <<>>, <<>>, <<>>),
     Fields(Null, tA, tX, tX, 2020, <<>>, <<>>, <<>>, <<>>)}

CallerIds == 1..MaxAdds

StoreAdd == \E f \in StoreInputs : add_paper(f) /\ UNCHANGED callVars

StoreUpdate ==
    \E id \in CallerIds, f \in StoreInputs :
        update_paper(id, f) /\ UNCHANGED callVars

\* another connection begins a transaction on papers.db: BEGIN IMMEDIATE
\* takes the reserved lock, BEGIN EXCLUSIVE the exclusive one
LockFile ==
    /\ db_lock = "none"
    /\ db_lock' \in {"reserved", "exclusive"}
    /\ UNCHANGED faultFrame

\* the connection that holds the lock ends its transaction, or the garbage
\* collector closes the connection a failed call left open
UnlockFile ==
    /\ db_lock # "none"
    /\ db_lock' = "none"
    /\ UNCHANGED faultFrame

StoreDelete ==
    \E id \in CallerIds : delete_paper(id) /\ UNCHANGED appVars

InitStore ==
    /\ init_db
    /\ clock = 0
    /\ last = NoCall
    /\ msg = <<>>
    /\ edit_id = Dash
    /\ edit_listbox = <<>>
    /\ mem_papers = <<>>
    /\ entries = <<>>
    /\ range_tree = <<>>
    /\ fulltext_tree = <<>>
    /\ search_results = <<>>
    /\ text_widget = [content |-> <<>>, highlight |-> {}]
    /\ store_class = "PaperDatabase"
    /\ list_tree = <<>>
    /\ edit_paper_ids = <<>>
    /\ edit_papers_data = <<>>
    /\ has_table = TRUE
    /\ db_lock = "none"
    /\ nav_checked = {}
    /\ shown_page = "none"
    /\ highlight_loop = LoopIdle
    /\ issued = {}
    /\ backup_file = NoBackup
    /\ indexes = {}
    /\ delete_pc = "idle"
    /\ init_pc = "idle"

NextStore == StoreAdd \/ StoreUpdate \/ StoreDelete \/ Tick \/ UnlockFile

SpecStore == InitStore /\ [][NextStore]_vars

\* the store API while the wall clock may also be set back
NextClock ==
    StoreAdd \/ StoreUpdate \/ StoreDelete \/ Tick \/ ClockBack \/ UnlockFile

SpecClock == InitStore /\ [][NextClock]_vars

----------------------------------------------------------------------------
(* The store of src/database/models.py: class Database.  Rows are dicts   *)
(* keyed by column name; a caller's dict holds any subset of the keys.    *)
(* The value under "tags" is tagged: a str, a list of str, or None.       *)

Columns ==
    {"id", "title", "title_en", "authors", "authors_en", "year", "tags",
     "summary", "fulltext", "original_file", "created_at", "updated_at"}

PyStr(x) == [t |-> "str", v |-> x]
PyList(x) == [t |-> "list", v |-> x]

Max(a, b) == IF a >= b THEN a ELSE b

RECURSIVE MaxOf(_)
MaxOf(S) == IF S = {} THEN 0 ELSE LET x == CHOOSE y \in S : TRUE
                                 IN  Max(x, MaxOf(S \ {x}))

\* the rowid AUTOINCREMENT gives next: above every id ever inserted and
\* above every id now in the table
NextId == Max(seq, MaxOf(Ids)) + 1

RECURSIVE JsonEscape(_)
\* the body of a JSON string literal: " and \ get a backslash
JsonEscape(x) ==
    IF x = <<>> THEN <<>>
    ELSE (IF Head(x) \in {"\"", "\\"} THEN <<"\\", Head(x)>> ELSE <<Head(x)>>)
         \o JsonEscape(Tail(x))

RECURSIVE JsonItems(_)
JsonItems(l) ==
    IF l = <<>> THEN <<>>
    ELSE <<"\"">> \o JsonEscape(Head(l)) \o <<"\"">>
         \o (IF Len(l) > 1 THEN <<",", " ">> ELSE <<>>) \o JsonItems(Tail(l))

\* json.dumps(list of str, ensure_ascii=False)
JsonDumps(l) == <<"[">> \o JsonItems(l) \o <<"]">>

\* the value bound to column tags: a list goes through json.dumps
TagsParam(v) ==
    IF v.t = "list" THEN JsonDumps(v.v)
    ELSE IF v.t = "none" THEN Null
    ELSE v.v

\* dict d with key k set to v
DictSet(d, k, v) ==
    [c \in DOMAIN d \cup {k} |-> IF c = k THEN v ELSE d[c]]

\* dict d without key k
DictDel(d, k) == [c \in DOMAIN d \ {k} |-> d[c]]

\* the values sqlite binds for the keys of d
Bound(d) ==
    IF "tags" \in DOMAIN d THEN DictSet(d, "tags", TagsParam(d.tags)) ELSE d

\* the value of a column no key was given for
ColumnDefault(c) == IF c \in {"id", "year"} THEN NullInt ELSE Null

\* a dictionary key that holds SQL text: put after the key id into the
\* column list it names the columns title, created_at, updated_at, closes
\* the statement with an ON CONFLICT clause and comments out the rest
UpsertKey ==
    "title, created_at, updated_at) VALUES (?,?,?,?) ON CONFLICT(id) DO UPDATE SET title=excluded.title --"

\* INSERT INTO papers (keys) VALUES (...): the keys are joined into the
\* statement as they are
Database_add_paper(paper_data) ==
    LET d == Bound(DictSet(DictSet(paper_data, "created_at", clock),
                           "updated_at", clock))
        id == IF "id" \in DOMAIN d /\ d.id # NullInt THEN d.id ELSE NextId
        row == [c \in Columns |->
                   IF c = "id" THEN id
                   ELSE IF c \in DOMAIN d THEN d[c] ELSE ColumnDefault(c)]
        upsert == [row EXCEPT !.title = d[UpsertKey]]
    IN  /\ id <= MaxAdds
        /\ IF DOMAIN paper_data = {"id", UpsertKey}
           THEN IF upsert.title = Null
                THEN /\ last' = Call("add_paper", Raise("IntegrityError"))
                     /\ UNCHANGED <<papers, seq>>
                ELSE IF id \in Ids
                THEN \* DO UPDATE SET title = excluded.title ; on a new
                     \* connection lastrowid is 0 when no row was inserted;
                     \* the rowid the INSERT was given still raises
                     \* sqlite_sequence
                     /\ papers' = {IF r.id = id
                                   THEN [r EXCEPT !.title = upsert.title]
                                   ELSE r : r \in papers}
                     /\ seq' = Max(seq, id)
                     /\ last' = Call("add_paper", PyInt(0))
                ELSE /\ papers' = papers \cup {upsert}
                     /\ seq' = Max(seq, id)
                     /\ last' = Call("add_paper", PyInt(id))
           ELSE IF ~(DOMAIN d \subseteq Columns)
           THEN /\ last' = Call("add_paper", Raise("OperationalError"))
                /\ UNCHANGED <<papers, seq>>
           ELSE IF row.title = Null \/ id \in Ids
           THEN /\ last' = Call("add_paper", Raise("IntegrityError"))
                /\ UNCHANGED <<papers, seq>>
           ELSE /\ papers' = papers \cup {row}
                /\ seq' = Max(seq, id)
                /\ last' = Call("add_paper", PyInt(id))
        /\ UNCHANGED clock

\* UPDATE papers SET key = ?, ... WHERE id = ? ; return cursor.rowcount > 0
Database_update_paper(paper_id, update_data) ==
    LET d == Bound(DictSet(DictDel(update_data, "created_at"),
                           "updated_at", clock))
        New(r) == [c \in Columns |-> IF c \in DOMAIN d THEN d[c] ELSE r[c]]
    IN  /\ IF DOMAIN update_data = {}
           THEN /\ last' = Call("update_paper", PyBool(FALSE))
                /\ UNCHANGED papers
           ELSE IF ~(DOMAIN d \subseteq Columns)
           THEN /\ last' = Call("update_paper", Raise("OperationalError"))
                /\ UNCHANGED papers
           ELSE IF \E r \in papers :
                      /\ r.id = paper_id
                      /\ \/ New(r).title = Null
                         \/ New(r).id \in Ids \ {paper_id}
           THEN /\ last' = Call("update_paper", Raise("IntegrityError"))
                /\ UNCHANGED papers
           ELSE /\ papers' = {IF r.id = paper_id THEN New(r) ELSE r :
                                 r \in papers}
                /\ last' = Call("update_paper", PyBool(paper_id \in Ids))
        /\ UNCHANGED <<seq, clock>>

\* DELETE FROM papers WHERE id = ? ; return cursor.rowcount > 0
Database_delete_paper(paper_id) ==
    /\ papers' = {r \in papers : r.id # paper_id}
    /\ last' = Call("delete_paper", PyBool(paper_id \in Ids))
    /\ UNCHANGED <<seq, clock>>

\* shutil.copy2(self.db_path, backup_path): the table and sqlite_sequence as
\* they are now; returns True
Database_backup_database ==
    /\ backup_file' = [papers |-> papers, seq |-> seq]
    /\ last' = Call("backup_database", PyBool(TRUE))
    /\ UNCHANGED <<papers, seq, clock>>

\* shutil.copy2(backup_path, self.db_path): the file is replaced by the
\* copy, so the rows and sqlite_sequence go back to what they were when the
\* copy was made; without a file at backup_path copy2 raises, the except
\* branch returns False
Database_restore_database ==
    /\ IF backup_file = NoBackup
       THEN /\ last' = Call("restore_database", PyBool(FALSE))
            /\ UNCHANGED <<papers, seq>>
       ELSE /\ papers' = backup_file.papers
            /\ seq' = backup_file.seq
            /\ last' = Call("restore_database", PyBool(TRUE))
    /\ UNCHANGED <<clock, backup_file>>

\* what a caller of Database holds besides the table and the backup
backupFrame ==
    <<msg, edit_id, edit_listbox, mem_papers, entries,
      range_tree, fulltext_tree, search_results, text_widget, store_class,
      list_tree, edit_paper_ids, edit_papers_data, has_table,
      nav_checked, shown_page, highlight_loop, issued, db_lock, indexes,
      delete_pc, init_pc>>

DbBackup == Database_backup_database /\ UNCHANGED backupFrame

DbRestore == Database_restore_database /\ UNCHANGED backupFrame

\* what callers of Database pass
AddDicts ==
    {[title |-> tA],
     [title |-> tB, year |-> 2020, tags |-> PyList(<<tA, tB>>)],
     [title |-> tA, tags |-> PyStr(<<"a", ",", "b">>), created_at |-> 0],
     [title |-> tB, id |-> 2],
     [year |-> 2020],
     [title |-> tA, bogus |-> 0]}

UpdateDicts ==
    {<< >>,
     [title |-> tB],
     [id |-> 2],
     [created_at |-> 0],
     [updated_at |-> 0, year |-> 2019],
     [tags |-> PyList(<<tA>>), title |-> tA],
     [title |-> Null],
     [bogus |-> 0]}

DbAdd ==
    \E d \in AddDicts : Database_add_paper(d) /\ UNCHANGED appVars

DbUpdate ==
    \E id \in CallerIds, d \in UpdateDicts :
        Database_update_paper(id, d) /\ UNCHANGED appVars

DbDelete ==
    \E id \in CallerIds :
        Database_delete_paper(id) /\ UNCHANGED appVars

NextModels == DbAdd \/ DbUpdate \/ DbDelete \/ Tick

\* Database.__init__ runs _init_db: the same empty table
SpecModels == InitStore /\ [][NextModels]_vars

----------------------------------------------------------------------------
(* Numbers as text *)

Digits == {"0", "1", "2", "3", "4", "5", "6", "7", "8", "9"}

DigitVal(c) ==
    CASE c = "0" -> 0 [] c = "1" -> 1 [] c = "2" -> 2 [] c = "3" -> 3
      [] c = "4" -> 4 [] c = "5" -> 5 [] c = "6" -> 6 [] c = "7" -> 7
      [] c = "8" -> 8 [] c = "9" -> 9

DigitChar(n) ==
    CASE n = 0 -> "0" [] n = 1 -> "1" [] n = 2 -> "2" [] n = 3 -> "3"
      [] n = 4 -> "4" [] n = 5 -> "5" [] n = 6 -> "6" [] n = 7 -> "7"
      [] n = 8 -> "8" [] n = 9 -> "9"

\* the text without its sign
Unsigned(s) == IF s # <<>> /\ Head(s) \in {"+", "-"} THEN Tail(s) ELSE s

\* int(s) accepts s: blanks around, a sign, then digits that single
\* underscores may separate
IsIntLiteral(s) ==
    LET b == Unsigned(Strip(s))
    IN  /\ b # <<>>
        /\ \A i \in 1..Len(b) : b[i] \in Digits \cup {"_"}
        /\ b[1] \in Digits /\ b[Len(b)] \in Digits
        /\ \A i \in 1..(Len(b) - 1) : ~(b[i] = "_" /\ b[i + 1] = "_")

RECURSIVE DigitsValue(_, _)
DigitsValue(b, acc) ==
    IF b = <<>> THEN acc
    ELSE IF Head(b) = "_" THEN DigitsValue(Tail(b), acc)
    ELSE DigitsValue(Tail(b), 10 * acc + DigitVal(Head(b)))

\* int(s), for s that int accepts
IntValue(s) ==
    LET t == Strip(s)
        v == DigitsValue(Unsigned(t), 0)
    IN  IF Head(t) = "-" THEN 0 - v ELSE v

RECURSIVE NatToStr(_)
NatToStr(n) ==
    IF n < 10 THEN <<DigitChar(n)>>
    ELSE NatToStr(n \div 10) \o <<DigitChar(n % 10)>>

\* str(n)
IntToStr(n) == IF n < 0 THEN <<"-">> \o NatToStr(0 - n) ELSE NatToStr(n)


-----------------------------------------------------------------------------
(* Database: the tags column read back *)

\* the scan of a JSON string literal of s from position i, acc the text read
\* so far: the text and the position after the closing quote, or no match
\* (of the escapes only \" and \\ occur, the two json.dumps writes for the
\* texts of the model)
RECURSIVE JsonString(_, _, _)
JsonString(s, i, acc) ==
    IF i > Len(s) THEN [ok |-> FALSE, v |-> acc, next |-> i]
    ELSE IF s[i] = "\"" THEN [ok |-> TRUE, v |-> acc, next |-> i + 1]
    ELSE IF s[i] = "\\"
    THEN IF i + 1 <= Len(s) /\ s[i + 1] \in {"\"", "\\"}
         THEN JsonString(s, i + 2, Append(acc, s[i + 1]))
         ELSE [ok |-> FALSE, v |-> acc, next |-> i]
    ELSE JsonString(s, i + 1, Append(acc, s[i]))

\* the position of the first character of s at or after i that is no blank
RECURSIVE JsonSkip(_, _)
JsonSkip(s, i) == IF i <= Len(s) /\ s[i] = " " THEN JsonSkip(s, i + 1) ELSE i

\* the items of a JSON array of strings from position i of s (after "[" or
\* ","), acc the items read so far
RECURSIVE JsonArray(_, _, _)
JsonArray(s, i, acc) ==
    LET j == JsonSkip(s, i)
        item == JsonString(s, j + 1, <<>>)
        k == JsonSkip(s, item.next)
    IN  IF j > Len(s) \/ s[j] # "\"" \/ ~item.ok \/ k > Len(s)
        THEN Raise("JSONDecodeError")
        ELSE IF s[k] = "]"
        THEN IF JsonSkip(s, k + 1) > Len(s)
             THEN PyList(Append(acc, item.v))
             ELSE Raise("JSONDecodeError")
        ELSE IF s[k] = ","
        THEN JsonArray(s, k + 1, Append(acc, item.v))
        ELSE Raise("JSONDecodeError")

\* json.loads(s) for the texts a tags column holds: an array of strings, a
\* string literal, null, digits; any other text raises JSONDecodeError
JsonLoads(s) ==
    LET i == JsonSkip(s, 1)
        str == JsonString(s, i + 1, <<>>)
        rest == SubSeq(s, i, Len(s))
    IN  IF i > Len(s) THEN Raise("JSONDecodeError")
        ELSE IF s[i] = "["
        THEN IF JsonSkip(s, i + 1) <= Len(s) /\ s[JsonSkip(s, i + 1)] = "]"
             THEN IF JsonSkip(s, JsonSkip(s, i + 1) + 1) > Len(s)
                  THEN PyList(<<>>)
                  ELSE Raise("JSONDecodeError")
             ELSE JsonArray(s, i + 1, <<>>)
        ELSE IF s[i] = "\""
        THEN IF str.ok /\ JsonSkip(s, str.next) > Len(s)
             THEN PyStr(str.v)
             ELSE Raise("JSONDecodeError")
        ELSE IF rest = <<"n", "u", "l", "l">> THEN None
        ELSE IF /\ \A n \in 1..Len(rest) : rest[n] \in Digits
                /\ (Len(rest) = 1 \/ rest[1] # "0")
        THEN PyInt(IntValue(rest))
        ELSE Raise("JSONDecodeError")

\* the value of key tags in the dictionary get_paper and search_papers
\* build from a row: json.loads of a text that is true, else the column
TagsOut(r) ==
    IF r.tags = Null THEN None
    ELSE IF r.tags = <<>> THEN PyStr(<<>>)
    ELSE JsonLoads(r.tags)

\* SELECT * FROM papers WHERE id = ? ; the row as a dictionary
Database_get_paper(paper_id) ==
    /\ last' = Call("get_paper",
                    IF paper_id \notin Ids THEN None
                    ELSE LET r == CHOOSE q \in papers : q.id = paper_id
                         IN  IF TagsOut(r) = Raise("JSONDecodeError") THEN TagsOut(r)
                             ELSE [py |-> "dict", id |-> r.id,
                                   title |-> r.title, tags |-> TagsOut(r)])
    /\ UNCHANGED <<papers, seq, clock>>

\* search_papers() without filters: every row as a dictionary
Database_search_papers ==
    /\ last' = Call("search_papers",
                    IF \E r \in papers : TagsOut(r) = Raise("JSONDecodeError")
                    THEN Raise("JSONDecodeError")
                    ELSE PyInt(Cardinality(papers)))
    /\ UNCHANGED <<papers, seq, clock>>

sJsonA == <<"[", "\"", "A", "\"", "]">>

\* the tags callers of Database pass: lists of strings, texts with commas,
\* the empty text, a text that is JSON itself
TagValues ==
    {PyList(<<tA, tB>>), PyList(<<>>), PyList(<<<<"a", "\"">>, <<"\\">>>>),
     PyStr(<<"a", ",", "b">>), PyStr(<<"a">>), PyStr(<<>>), PyStr(sJsonA)}

TagDicts == {[title |-> tA]} \cup {[title |-> tA, tags |-> v] : v \in TagValues}

tagsFrame ==
    <<msg, edit_id, edit_listbox, mem_papers, range_tree, fulltext_tree,
      search_results, text_widget, store_class, moreVars>>

TagsAdd ==
    \E d \in TagDicts :
        Database_add_paper(d) /\ entries' = d /\ UNCHANGED tagsFrame

TagsUpdate ==
    \E id \in CallerIds, v \in TagValues :
        /\ Database_update_paper(id, [tags |-> v])
        /\ entries' = <<>>
        /\ UNCHANGED tagsFrame

TagsGet ==
    \E id \in CallerIds : Database_get_paper(id) /\ UNCHANGED appVars

TagsSearch == Database_search_papers /\ UNCHANGED appVars

NextTags == TagsAdd \/ TagsUpdate \/ TagsGet \/ TagsSearch

SpecTags == InitStore /\ [][NextTags]_vars

----------------------------------------------------------------------------
(* paper_manager_base.py: the handlers of PaperManagerApp *)

\* what the user has typed into a form when a handler runs
Form(t, te, a, ae, y, tg, s, ft, of) ==
    [title |-> t, title_en |-> te, authors |-> a, authors_en |-> ae,
     year_str |-> y, tags |-> tg, summary |-> s, fulltext |-> ft,
     original_file |-> of]

\* the year check with both limits off by one
YearOutOfRange_off(year) == year < 999 \/ year > 10000

\* if year < 1000 or year > 9999: raise ValueError
YearOutOfRange(year) == year < 1000 \/ year > 9999

\* the checks of _save_paper without the authors check
SaveChecks_no_authors(title, authors, year_str) ==
    IF title = <<>> THEN "title_required"
    ELSE IF year_str = <<>> THEN "year_required"
    ELSE IF ~IsIntLiteral(year_str) THEN "year_invalid"
    ELSE IF YearOutOfRange(IntValue(year_str)) THEN "year_invalid"
    ELSE "ok"

\* _save_paper, from the required-field checks to the year check: the
\* warning shown, or "ok"
SaveChecks(title, authors, year_str) ==
    IF title = <<>> THEN "title_required"
    ELSE IF authors = <<>> THEN "authors_required"
    ELSE IF year_str = <<>> THEN "year_required"
    ELSE IF ~IsIntLiteral(year_str) THEN "year_invalid"
    ELSE IF YearOutOfRange(IntValue(year_str)) THEN "year_invalid"
    ELSE "ok"

\* the same block of _update_paper
UpdateChecks(title, authors, year_str) ==
    IF title = <<>> THEN "title_required"
    ELSE IF authors = <<>> THEN "authors_required"
    ELSE IF year_str = <<>> THEN "year_required"
    ELSE IF ~IsIntLiteral(year_str) THEN "year_invalid"
    ELSE IF YearOutOfRange(IntValue(year_str)) THEN "year_invalid"
    ELSE "ok"

\* the arguments both handlers pass to the store: the English fields fall
\* back to the primary ones
StoreArgs(form) ==
    LET title == Strip(form.title)
        title_en == Strip(form.title_en)
        authors == Strip(form.authors)
        authors_en == Strip(form.authors_en)
    IN  Fields(title, IF title_en # <<>> THEN title_en ELSE title,
               authors, IF authors_en # <<>> THEN authors_en ELSE authors,
               IntValue(form.year_str), Strip(form.tags),
               Strip(form.summary), Strip(form.fulltext),
               Strip(form.original_file))

TitleCut == 50

\* f"[{paper_id}] {year} - {title[:50]}" and "..." after a longer title; a
\* year that is NULL is read as None and written as the word None
DisplayText(r) ==
    <<"[">> \o IntToStr(r.id) \o <<"]", " ">>
    \o (IF r.year = NullInt THEN <<"N", "o", "n", "e">>
        ELSE IntToStr(r.year))
    \o <<" ", "-", " ">>
    \o SubSeq(r.title, 1, IF Len(r.title) > TitleCut THEN TitleCut
                          ELSE Len(r.title))
    \o (IF Len(r.title) > TitleCut THEN <<".", ".", ".">> ELSE <<>>)

\* the listbox rows _refresh_edit_list builds from get_all_papers()
EditRows(rows) == [i \in 1..Len(rows) |-> DisplayText(rows[i])]

RECURSIVE BeforeFirst(_, _)
\* s.split(c)[0]
BeforeFirst(s, c) ==
    IF s = <<>> \/ Head(s) = c THEN <<>>
    ELSE <<Head(s)>> \o BeforeFirst(Tail(s), c)

RECURSIVE Without(_, _)
\* s.replace(c, '')
Without(s, c) ==
    IF s = <<>> THEN <<>>
    ELSE (IF Head(s) = c THEN <<>> ELSE <<Head(s)>>) \o Without(Tail(s), c)

\* selected_text.split(']')[0].replace('[', '')
SelectedIdText(text) == Without(BeforeFirst(text, "]"), "[")

\* the longest tags text the list tab shows in full, and what is kept of a
\* longer one before "..."
TagsShown == 30
TagsKept == 27

\* the row _refresh_list inserts into list_tree for a record
ListRow(r) ==
    [id |-> r.id, title |-> r.title, authors |-> r.authors, year |-> r.year,
     tags |-> IF r.tags # Null /\ r.tags # <<>> /\ Len(r.tags) > TagsShown
              THEN SubSeq(r.tags, 1, TagsKept) \o <<".", ".", ".">>
              ELSE r.tags,
     created_at |-> r.created_at]

ListRows(rows) == [i \in 1..Len(rows) |-> ListRow(rows[i])]

\* what _refresh_edit_list leaves in the edit tab for the rows it was given
EditViewOf(rows) ==
    [listbox |-> EditRows(rows),
     ids |-> [i \in 1..Len(rows) |-> rows[i].id],
     data |-> [id \in {rows[i].id : i \in 1..Len(rows)} |->
                 CHOOSE r \in {rows[i] : i \in 1..Len(rows)} : r.id = id]]

\* the edit tab and the list tab
viewVars == <<edit_listbox, edit_paper_ids, edit_papers_data, list_tree>>

\* what the handlers of the edit tab and of the list tab leave alone
sideRest ==
    <<range_tree, fulltext_tree, search_results, text_widget, store_class,
      has_table, nav_checked, shown_page, highlight_loop, issued,
      backup_file, indexes, init_pc>>

sideKept == <<sideRest, delete_pc>>

sideVars == <<sideKept, db_lock>>

_save_paper(form) ==
    LET err == SaveChecks(Strip(form.title), Strip(form.authors),
                          Strip(form.year_str))
    IN  IF err # "ok"
        THEN /\ msg' = <<Dialog("_save_paper", "showwarning", err)>>
             /\ last' = NoCall
             /\ UNCHANGED <<papers, seq, clock, edit_id, edit_listbox,
                            mem_papers>>
        ELSE /\ add_paper(StoreArgs(form))
             /\ msg' = IF last'.ret.py = "raise"
                       THEN <<Dialog("_save_paper", "showerror", "save_failed")>>
                       ELSE <<Dialog("_save_paper", "showinfo", "saved")>>
             /\ UNCHANGED <<edit_id, edit_listbox, mem_papers>>

\* messagebox.askyokcancel(...): tkinter.messagebox has no such function
askyokcancel == Raise("AttributeError")

_update_paper(form) ==
    IF edit_id = Dash
    THEN /\ msg' = <<Dialog("_update_paper", "showwarning", "select_paper")>>
         /\ last' = NoCall
         /\ UNCHANGED <<papers, seq, clock, edit_id, mem_papers, viewVars>>
    ELSE
    LET err == UpdateChecks(Strip(form.title), Strip(form.authors),
                            Strip(form.year_str))
    IN  IF err # "ok"
        THEN /\ msg' = <<Dialog("_update_paper", "showwarning", err)>>
             /\ last' = NoCall
             /\ UNCHANGED <<papers, seq, clock, edit_id, mem_papers,
                            viewVars>>
        ELSE IF askyokcancel.py = "raise"
        THEN \* the exception leaves the handler; Tk reports it and goes on
             /\ msg' = <<Dialog("_update_paper", "exception", askyokcancel.exc)>>
             /\ last' = NoCall
             /\ UNCHANGED <<papers, seq, clock, edit_id, mem_papers,
                            viewVars>>
        ELSE IF ~askyokcancel.v
        THEN /\ msg' = <<Dialog("_update_paper", "askokcancel", "cancel")>>
             /\ last' = NoCall
             /\ UNCHANGED <<papers, seq, clock, edit_id, mem_papers,
                            viewVars>>
        ELSE /\ update_paper(IntValue(edit_id), StoreArgs(form))
             /\ IF last'.ret.py = "raise"
                THEN /\ msg' = <<Dialog("_update_paper", "showerror",
                                        "update_failed")>>
                     /\ UNCHANGED viewVars
                ELSE \* _refresh_edit_list() ; _refresh_list()
                     /\ msg' = <<Dialog("_update_paper", "showinfo", "updated")>>
                     /\ edit_listbox' = EditViewOf(Sorted(papers')).listbox
                     /\ edit_paper_ids' = EditViewOf(Sorted(papers')).ids
                     /\ edit_papers_data' = EditViewOf(Sorted(papers')).data
                     /\ list_tree' = ListRows(Sorted(papers'))
             /\ UNCHANGED <<edit_id, mem_papers>>

\* a handler of the main window runs only while no other handler waits
\* in a message box: the dialog holds the grab of the application
NoDialog == delete_pc = "idle"

\* the dialogs of a _delete_paper whose delete_paper returned
DeleteDone ==
    <<Dialog("_delete_paper", "askyesno", "yes"),
      Dialog("_delete_paper", "showinfo", "deleted")>>

\* the except branch of _delete_paper: showerror after the dialogs so far
DeleteFailed(shown) ==
    Append(shown, Dialog("_delete_paper", "showerror", "delete_failed"))

\* _delete_paper from the id check to messagebox.showinfo: after a
\* delete_paper that returned, the handler waits in the dialog with the
\* form and the views as they were.  answer: what the user clicks in the
\* askyesno dialog
_delete_paper(answer) ==
    /\ IF edit_id = Dash
       THEN /\ msg' = <<Dialog("_delete_paper", "showwarning", "select_paper")>>
            /\ last' = NoCall
            /\ UNCHANGED <<papers, seq, clock, delete_pc>>
       ELSE IF ~answer
       THEN /\ msg' = <<Dialog("_delete_paper", "askyesno", "no")>>
            /\ last' = NoCall
            /\ UNCHANGED <<papers, seq, clock, delete_pc>>
       ELSE /\ delete_paper(IntValue(edit_id))
            /\ IF last'.ret.py = "raise"
               THEN /\ msg' = DeleteFailed(<<Dialog("_delete_paper",
                                                    "askyesno", "yes")>>)
                    /\ UNCHANGED delete_pc
               ELSE /\ msg' = DeleteDone
                    /\ delete_pc' = "showinfo"
    /\ UNCHANGED <<edit_id, mem_papers, viewVars, db_lock>>

\* _delete_paper_closed without the call of _clear_edit_form()
_delete_paper_closed_keep_form ==
    /\ delete_pc = "showinfo"
    /\ IF ReadFault
       THEN /\ edit_listbox' = <<>>
            /\ UNCHANGED <<edit_paper_ids, edit_papers_data>>
            /\ msg' = DeleteFailed(msg)
            /\ delete_pc' = "idle"
       ELSE /\ edit_listbox' = EditViewOf(get_all_papers).listbox
            /\ edit_paper_ids' = EditViewOf(get_all_papers).ids
            /\ edit_papers_data' = EditViewOf(get_all_papers).data
            /\ UNCHANGED msg
            /\ delete_pc' = "refresh_list"
    /\ UNCHANGED <<papers, seq, clock, last, edit_id, mem_papers, list_tree,
                   db_lock>>

\* _delete_paper once the user has closed the showinfo dialog:
\* _clear_edit_form(), then _refresh_edit_list(), inside the try.  When
\* get_all_papers raises, the listbox is already empty, the ids are as
\* they were, _refresh_list() is skipped and the except branch reports
\* the delete as failed.
_delete_paper_closed ==
    /\ delete_pc = "showinfo"
    /\ edit_id' = Dash
    /\ IF ReadFault
       THEN /\ edit_listbox' = <<>>
            /\ UNCHANGED <<edit_paper_ids, edit_papers_data>>
            /\ msg' = DeleteFailed(msg)
            /\ delete_pc' = "idle"
       ELSE /\ edit_listbox' = EditViewOf(get_all_papers).listbox
            /\ edit_paper_ids' = EditViewOf(get_all_papers).ids
            /\ edit_papers_data' = EditViewOf(get_all_papers).data
            /\ UNCHANGED msg
            /\ delete_pc' = "refresh_list"
    /\ UNCHANGED <<papers, seq, clock, last, mem_papers, list_tree, db_lock>>

\* the last call of _delete_paper, _refresh_list(): the tree is emptied,
\* then get_all_papers is read; when it raises the except branch reports
\* the delete as failed
_delete_paper_refresh_list ==
    /\ delete_pc = "refresh_list"
    /\ IF ReadFault
       THEN /\ list_tree' = <<>>
            /\ msg' = DeleteFailed(msg)
       ELSE /\ list_tree' = ListRows(get_all_papers)
            /\ UNCHANGED msg
    /\ delete_pc' = "idle"
    /\ UNCHANGED <<papers, seq, clock, last, edit_id, mem_papers,
                   edit_listbox, edit_paper_ids, edit_papers_data, db_lock>>

\* the refresh button of the list tab: the tree is emptied, then
\* get_all_papers is read; its exception leaves the handler
_refresh_list ==
    /\ IF ReadFault
       THEN /\ list_tree' = <<>>
            /\ last' = Call("get_all_papers", Raise("OperationalError"))
            /\ msg' = <<Dialog("_refresh_list", "exception",
                               "OperationalError")>>
       ELSE /\ list_tree' = ListRows(get_all_papers)
            /\ last' = Call("get_all_papers", PyInt(Len(get_all_papers)))
            /\ msg' = <<>>
    /\ UNCHANGED <<papers, seq, clock, edit_id, mem_papers, edit_listbox,
                   edit_paper_ids, edit_papers_data>>

\* edit_listbox.delete(0, END), then get_all_papers, then the ids and the
\* records; an exception of the read leaves the handler with the listbox
\* empty and the ids as they were
_refresh_edit_list ==
    /\ IF ReadFault
       THEN /\ edit_listbox' = <<>>
            /\ UNCHANGED <<edit_paper_ids, edit_papers_data>>
            /\ last' = Call("get_all_papers", Raise("OperationalError"))
            /\ msg' = <<Dialog("_refresh_edit_list", "exception",
                               "OperationalError")>>
       ELSE /\ edit_listbox' = EditViewOf(get_all_papers).listbox
            /\ edit_paper_ids' = EditViewOf(get_all_papers).ids
            /\ edit_papers_data' = EditViewOf(get_all_papers).data
            /\ last' = Call("get_all_papers", PyInt(Len(get_all_papers)))
            /\ msg' = <<>>
    /\ UNCHANGED list_tree
    /\ UNCHANGED <<papers, seq, clock, edit_id, mem_papers>>

\* i: the row of the listbox the user selects
_on_edit_select(i) ==
    LET paper_id == IntValue(SelectedIdText(edit_listbox[i]))
        paper == get_paper_by_id(paper_id)
    IN  /\ i \in 1..Len(edit_listbox)
        /\ IF ReadFault
           THEN \* get_paper_by_id raises and the exception leaves the
                \* handler
                /\ last' = Call("get_paper_by_id", Raise("OperationalError"))
                /\ msg' = <<Dialog("_on_edit_select", "exception",
                                   "OperationalError")>>
                /\ UNCHANGED edit_id
           ELSE /\ last' = Call("get_paper_by_id",
                                IF paper = None THEN None
                                ELSE PyInt(paper.id))
                /\ IF paper = None
                   THEN /\ msg' = <<Dialog("_on_edit_select", "showerror",
                                           "not_found")>>
                        /\ UNCHANGED edit_id
                   ELSE \* _load_paper_to_edit_form
                        /\ msg' = <<>>
                        /\ edit_id' = IntToStr(paper.id)
        /\ UNCHANGED <<papers, seq, clock, edit_listbox, mem_papers>>

_clear_edit_form ==
    /\ edit_id' = Dash
    /\ msg' = <<>>
    /\ last' = NoCall
    /\ UNCHANGED <<papers, seq, clock, edit_listbox, mem_papers>>

sT == <<" ", "T">>
sA == <<"A", " ">>
sE == <<"E">>
sBlank == <<" ">>

YearTexts ==
    {<<>>, <<"9", "9", "9">>, <<"1", "0", "0", "0">>, <<"9", "9", "9", "9">>,
     <<"1", "0", "0", "0", "0">>, <<"1", "x">>}

\* what the user may have typed: every mix of required fields that are
\* empty, blank or filled, a negative year, and a filled form with an
\* English title and blanks around the year
FormInputs ==
    {Form(t, <<>>, a, <<>>, y, <<>>, <<>>, <<>>, <<>>) :
        t \in {<<>>, sBlank, sT}, a \in {<<>>, sA}, y \in YearTexts}
    \cup {Form(sT, <<>>, sA, <<>>, <<"-", "1", "0", "0", "0">>,
               <<>>, <<>>, <<>>, <<>>),
          Form(sT, sE, sA, <<>>, <<" ", "1", "0", "0", "0">>,
               <<"t">>, <<>>, <<>>, <<>>)}

\* the forms tried where the whole application runs: three that pass and
\* one for each way to fail
AppForms ==
    {Form(sT, <<>>, sA, <<>>, y, <<>>, <<>>, <<>>, <<>>) :
        y \in YearTexts \cup {<<"-", "1", "0", "0", "0">>}}
    \cup {Form(t, <<>>, a, <<>>, <<"1", "0", "0", "0">>, <<>>, <<>>, <<>>, <<>>) :
            t \in {<<>>, sBlank, sT}, a \in {<<>>, sA}}
    \cup {Form(sT, sE, sA, <<>>, <<" ", "1", "0", "0", "0">>,
               <<"t">>, <<>>, <<>>, <<>>)}

SavePaper ==
    /\ NoDialog
    /\ \E f \in AppForms : _save_paper(f) /\ UNCHANGED <<entries, restVars>>

UpdatePaper ==
    /\ NoDialog
    /\ \E f \in AppForms : _update_paper(f) /\ UNCHANGED <<entries, sideVars>>

DeletePaper ==
    /\ NoDialog
    /\ \E answer \in BOOLEAN :
          _delete_paper(answer) /\ UNCHANGED <<entries, sideRest>>

\* the user closes the dialog _delete_paper waits in
DeleteClosed == _delete_paper_closed /\ UNCHANGED <<entries, sideRest>>

DeleteRefreshList ==
    _delete_paper_refresh_list /\ UNCHANGED <<entries, sideRest>>

EditSelect ==
    /\ NoDialog
    /\ \E i \in 1..MaxAdds : _on_edit_select(i) /\ UNCHANGED <<entries, restVars>>

RefreshEditList ==
    NoDialog /\ _refresh_edit_list /\ UNCHANGED <<entries, sideVars>>

RefreshList == NoDialog /\ _refresh_list /\ UNCHANGED <<entries, sideVars>>

ClearEditForm ==
    NoDialog /\ _clear_edit_form /\ UNCHANGED <<entries, restVars>>

\* init_db(), PaperManagerApp(): _init_edit_tab ends with
\* _refresh_edit_list() and _clear_edit_form()
InitApp == InitStore

NextApp ==
    \/ SavePaper
    \/ UpdatePaper
    \/ DeletePaper
    \/ DeleteClosed
    \/ DeleteRefreshList
    \/ EditSelect
    \/ RefreshEditList
    \/ ClearEditForm
    \/ Tick

SpecApp == InitApp /\ [][NextApp]_vars

\* the same handlers on every form of FormInputs, the form they read kept
\* in variable entries
SaveForm ==
    /\ NoDialog
    /\ \E f \in FormInputs : _save_paper(f) /\ entries' = f /\ UNCHANGED restVars

UpdateForm ==
    /\ NoDialog
    /\ \E f \in FormInputs : _update_paper(f) /\ entries' = f /\ UNCHANGED sideVars

NextForms == SaveForm \/ UpdateForm \/ EditSelect \/ RefreshEditList

SpecForms == InitApp /\ [][NextForms]_vars

\* the edit tab over records whose titles hold the brackets of the row text
BracketTitles ==
    {<<"]">>, <<"[", "9", "]">>, <<"a", "]", "b", "[">>, sT}

EditForms ==
    {Form(t, <<>>, sA, <<>>, <<"1", "0", "0", "0">>, <<>>, <<>>, <<>>, <<>>) :
        t \in BracketTitles}

EditSave ==
    /\ NoDialog
    /\ \E f \in EditForms : _save_paper(f) /\ UNCHANGED <<entries, restVars>>

NextEdit ==
    \/ EditSave
    \/ RefreshEditList
    \/ EditSelect
    \/ DeletePaper
    \/ DeleteClosed
    \/ DeleteRefreshList
    \/ LockFile
    \/ UnlockFile

SpecEdit == InitApp /\ [][NextEdit]_vars

\* the application while another connection takes and releases the write
\* lock of papers.db: sqlite3.connect(self.db_name) waits its timeout and
\* execute raises "database is locked"
\* a form that passes the checks and one that does not
FaultForms ==
    {Form(t, <<>>, sA, <<>>, <<"1", "0", "0", "0">>, <<>>, <<>>, <<>>, <<>>) :
        t \in {<<>>, sT}}

FaultSave ==
    /\ NoDialog
    /\ \E f \in FaultForms : _save_paper(f) /\ UNCHANGED <<entries, restVars>>

FaultUpdate ==
    /\ NoDialog
    /\ \E f \in FaultForms : _update_paper(f) /\ UNCHANGED <<entries, sideVars>>

NextFault ==
    \/ FaultSave
    \/ FaultUpdate
    \/ DeletePaper
    \/ DeleteClosed
    \/ DeleteRefreshList
    \/ EditSelect
    \/ RefreshEditList
    \/ RefreshList
    \/ LockFile
    \/ UnlockFile

SpecFault == InitApp /\ [][NextFault]_vars

----------------------------------------------------------------------------
(* paper_manager_main: RegisterView over db.py's PaperDatabase, and the   *)
(* PaperManagerApp of main.py over InMemoryPaperStore                      *)

\* db.py PaperDatabase.add_paper: INSERT ... ; lastrowid ; commit
db_add_paper(f) ==
    /\ seq < MaxAdds
    /\ IF f.title = Null
       THEN /\ last' = Call("add_paper", Raise("IntegrityError"))
            /\ UNCHANGED <<papers, seq>>
       ELSE /\ papers' = papers \cup {MkRow(seq + 1, f, clock, clock)}
            /\ seq' = seq + 1
            /\ last' = Call("add_paper", PyInt(seq + 1))
    /\ UNCHANGED clock

\* x or None
OrNone(x) == IF x = <<>> THEN Null ELSE x

\* RegisterView._save_paper
RegisterView_save_paper(form) ==
    LET title == Strip(form.title)
        authors == Strip(form.authors)
        year_text == Strip(form.year_str)
    IN  IF title = <<>> \/ authors = <<>> \/ year_text = <<>>
        THEN /\ msg' = <<Dialog("RegisterView._save_paper", "showwarning",
                                "required_fields")>>
             /\ last' = NoCall
             /\ UNCHANGED <<papers, seq, clock, edit_id, edit_listbox,
                            mem_papers>>
        ELSE IF ~IsIntLiteral(year_text)
        THEN /\ msg' = <<Dialog("RegisterView._save_paper", "showwarning",
                                "year_not_number")>>
             /\ last' = NoCall
             /\ UNCHANGED <<papers, seq, clock, edit_id, edit_listbox,
                            mem_papers>>
        ELSE /\ db_add_paper(Fields(title, OrNone(Strip(form.title_en)),
                                    authors, OrNone(Strip(form.authors_en)),
                                    IntValue(year_text), Strip(form.tags),
                                    Strip(form.summary), Strip(form.fulltext),
                                    Null))
             /\ msg' = <<Dialog("RegisterView._save_paper", "showinfo",
                                "saved")>>
             /\ UNCHANGED <<edit_id, edit_listbox, mem_papers>>

\* InMemoryPaperStore.add_paper: paper_id = len(self.papers) + 1 ; append
InMemoryPaperStore_add_paper(title, authors, year, tags, summary, fulltext, original_file) ==
    /\ Len(mem_papers) < MaxAdds
    /\ mem_papers' =
          Append(mem_papers,
                 [id |-> Len(mem_papers) + 1, title |-> title,
                  authors |-> authors, year |-> year, tags |-> tags,
                  summary |-> summary, fulltext |-> fulltext,
                  original_file |-> original_file, created_at |-> <<>>,
                  updated_at |-> <<>>])
    /\ last' = Call("add_paper", PyInt(Len(mem_papers) + 1))

\* main.py PaperManagerApp._handle_save_paper
_handle_save_paper(form) ==
    LET title == Strip(form.title)
        authors == Strip(form.authors)
        year_text == Strip(form.year_str)
    IN  IF title = <<>> \/ authors = <<>> \/ year_text = <<>>
        THEN /\ msg' = <<Dialog("_handle_save_paper", "showwarning",
                                "required_fields")>>
             /\ last' = NoCall
             /\ UNCHANGED <<papers, seq, clock, edit_id, edit_listbox,
                            mem_papers>>
        ELSE IF ~IsIntLiteral(year_text)
        THEN /\ msg' = <<Dialog("_handle_save_paper", "showwarning",
                                "year_not_integer")>>
             /\ last' = NoCall
             /\ UNCHANGED <<papers, seq, clock, edit_id, edit_listbox,
                            mem_papers>>
        ELSE /\ InMemoryPaperStore_add_paper(
                    title, authors, IntValue(year_text), Strip(form.tags),
                    Strip(form.summary), Strip(form.fulltext), <<>>)
             /\ msg' = <<Dialog("_handle_save_paper", "showinfo", "saved")>>
             /\ UNCHANGED <<papers, seq, clock, edit_id, edit_listbox>>

RegisterSave ==
    \E f \in AppForms : RegisterView_save_paper(f) /\ entries' = f /\ UNCHANGED restVars
HandleSave == \E f \in AppForms : _handle_save_paper(f) /\ entries' = f /\ UNCHANGED restVars

NextViews == RegisterSave \/ HandleSave \/ Tick

\* PaperDatabase() of db.py creates the table; InMemoryPaperStore() is empty
SpecViews == InitStore /\ [][NextViews]_vars

----------------------------------------------------------------------------
(* paper_manager_base.py: the range search tab *)

\* what the user has typed into the range search entries
RangeForm(t, a, yf, yt, tg) ==
    [title |-> t, authors |-> a, year_from_str |-> yf, year_to_str |-> yt,
     tags |-> tg]

\* the year checks without the comparison of the two bounds
RangeChecks_no_order(year_from_str, year_to_str) ==
    IF /\ year_from_str # <<>>
       /\ \/ ~IsIntLiteral(year_from_str)
          \/ YearOutOfRange(IntValue(year_from_str))
    THEN "year_from_invalid"
    ELSE IF /\ year_to_str # <<>>
            /\ \/ ~IsIntLiteral(year_to_str)
               \/ YearOutOfRange(IntValue(year_to_str))
    THEN "year_to_invalid"
    ELSE "ok"

\* _execute_range_search, the year checks: the warning shown, or "ok"
RangeChecks(year_from_str, year_to_str) ==
    IF /\ year_from_str # <<>>
       /\ \/ ~IsIntLiteral(year_from_str)
          \/ YearOutOfRange(IntValue(year_from_str))
    THEN "year_from_invalid"
    ELSE IF /\ year_to_str # <<>>
            /\ \/ ~IsIntLiteral(year_to_str)
               \/ YearOutOfRange(IntValue(year_to_str))
    THEN "year_to_invalid"
    ELSE IF /\ year_from_str # <<>> /\ IntValue(year_from_str) # 0
            /\ year_to_str # <<>> /\ IntValue(year_to_str) # 0
            /\ IntValue(year_from_str) > IntValue(year_to_str)
    THEN "year_order"
    ELSE "ok"

\* year_from / year_to as passed to search_papers: None or the int
YearArg(year_str) == IF year_str = <<>> THEN {} ELSE {IntValue(year_str)}

\* the values of one row of range_tree; tags longer than 40 are cut
RangeRow(r) ==
    [id |-> r.id, title |-> r.title, authors |-> r.authors, year |-> r.year,
     tags |-> IF r.tags # Null /\ Len(r.tags) > 40
              THEN SubSeq(r.tags, 1, 37) \o <<".", ".", ".">>
              ELSE r.tags]

\* _display_range_results: the tree is emptied and filled again
RangeRows(rows) == [i \in 1..Len(rows) |-> RangeRow(rows[i])]

_execute_range_search(form) ==
    LET year_from_str == Strip(form.year_from_str)
        year_to_str == Strip(form.year_to_str)
        err == RangeChecks(year_from_str, year_to_str)
        found == search_papers(Strip(form.title), Strip(form.authors),
                               YearArg(year_from_str), YearArg(year_to_str),
                               Strip(form.tags))
    IN  IF err # "ok"
        THEN /\ msg' = <<Dialog("_execute_range_search", "showwarning", err)>>
             /\ last' = NoCall
             /\ UNCHANGED range_tree
        ELSE IF ReadFault
        THEN \* search_papers raises: the except branch reports it
             /\ msg' = <<Dialog("_execute_range_search", "showerror",
                                "search_failed")>>
             /\ last' = Call("search_papers", Raise("OperationalError"))
             /\ UNCHANGED range_tree
        ELSE /\ last' = Call("search_papers", PyInt(Len(found)))
             /\ range_tree' = RangeRows(found)
             /\ msg' = <<>>

NoRangeForm == RangeForm(<<>>, <<>>, <<>>, <<>>, <<>>)

\* the entries are emptied, then the search runs
_show_all_range == _execute_range_search(NoRangeForm)

_clear_range_search ==
    /\ range_tree' = <<>>
    /\ msg' = <<>>
    /\ last' = NoCall

YearBounds ==
    {<<>>, <<"9", "9", "9">>, <<"2", "0", "1", "9">>, <<"2", "0", "2", "0">>,
     <<"1", "0", "0", "0", "0">>, <<"1", "x">>}

\* every pair of year bounds, and two forms with text criteria
RangeForms ==
    {RangeForm(<<>>, <<>>, yf, yt, <<>>) : yf \in YearBounds, yt \in YearBounds}
    \cup {RangeForm(<<"a", " ">>, <<>>, <<" ", "2", "0", "2", "0">>, <<>>, <<>>),
          RangeForm(<<>>, <<"x">>, <<>>, <<"2", "0", "1", "9">>, <<"t">>)}

\* the records the searched store may hold
RangeInputs ==
    {Fields(tA, tB, tX, tX, 2020, <<"t">>, <<>>, <<>>, <<>>),
     Fields(tB, tA, tX, tX, 2020, <<>>, <<>>, <<>>, <<>>),
     Fields(tB, tA, tX, tX, 2019, <<"t">>, <<>>, <<>>, <<>>)}

\* what a step of the range tab leaves alone
rangeFrame ==
    <<papers, seq, clock, edit_id, edit_listbox, mem_papers, fulltext_tree,
      search_results, text_widget, store_class, moreVars>>

RangeAdd == \E f \in RangeInputs : add_paper(f) /\ UNCHANGED appVars

ExecuteRangeSearch ==
    \E f \in RangeForms :
        _execute_range_search(f) /\ entries' = f /\ UNCHANGED rangeFrame

ShowAllRange ==
    _show_all_range /\ entries' = NoRangeForm /\ UNCHANGED rangeFrame

ClearRangeSearch ==
    _clear_range_search /\ entries' = NoRangeForm /\ UNCHANGED rangeFrame

NextRange ==
    RangeAdd \/ ExecuteRangeSearch \/ ShowAllRange \/ ClearRangeSearch

SpecRange == InitApp /\ [][NextRange]_vars

----------------------------------------------------------------------------
(* paper_manager_base.py: the keyword search tab *)

\* str.lower() of one character: unlike LIKE it also folds letters
\* outside ASCII
PyLower(c) == IF c = "É" THEN "é" ELSE Lower(c)

\* c.lower() as a text: the capital I with a dot above (U+0130, written by
\* its code point) becomes two characters, i and the combining dot above
\* (U+0307)
PyLowerChar(c) == IF c = "U+0130" THEN <<"i", "U+0307">> ELSE <<PyLower(c)>>

\* how many of the first j characters of s lower() makes two characters of
Doubled(s, j) == Cardinality({i \in 1..j : Len(PyLowerChar(s[i])) = 2})

\* s.lower(): the lower() of each character, one after the other; the
\* character j of s comes out at the places j + Doubled(s, j - 1) up to
\* j + Doubled(s, j)
PyLowerText(s) ==
    IF Doubled(s, Len(s)) = 0 THEN [i \in 1..Len(s) |-> PyLower(s[i])]
    ELSE [m \in 1..(Len(s) + Doubled(s, Len(s))) |->
            LET j == CHOOSE j \in 1..Len(s) :
                        j + Doubled(s, j - 1) <= m /\ m <= j + Doubled(s, j)
            IN  PyLowerChar(s[j])[m - (j + Doubled(s, j - 1)) + 1]]

\* x in s, for two str
PyIn(x, s) ==
    \E i \in 0..(Len(s) - Len(x)) : \A k \in 1..Len(x) : s[i + k] = x[k]

\* s.find(x), for x that is in s: the least index, counted from 0
Find(s, x) ==
    CHOOSE i \in 0..(Len(s) - Len(x)) :
        /\ \A k \in 1..Len(x) : s[i + k] = x[k]
        /\ \A j \in 0..(i - 1) : \E k \in 1..Len(x) : s[j + k] # x[k]

\* paper[7] if paper[7] else ""
OrEmpty(x) == IF x = Null THEN <<>> ELSE x

\* WHERE summary LIKE ? OR fulltext LIKE ?  with f'%{keyword}%'
FulltextWhere(r, keyword) == Like(r.summary, keyword) \/ Like(r.fulltext, keyword)

\* SELECT * FROM papers WHERE ... ORDER BY year DESC, title_en
fulltext_search(keyword) == Sorted({r \in papers : FulltextWhere(r, keyword)})

\* the characters of context kept on each side of the match
ContextLen == 30

Ellipsis == <<".", ".", ".">>

\* the snippet around the first match of keyword in field
Snippet(field, keyword) ==
    LET match_pos == Find(PyLowerText(field), PyLowerText(keyword))
        start == IF match_pos - ContextLen > 0 THEN match_pos - ContextLen
                 ELSE 0
        end == IF Len(field) < match_pos + Len(keyword) + ContextLen
               THEN Len(field)
               ELSE match_pos + Len(keyword) + ContextLen
    IN  (IF start > 0 THEN Ellipsis ELSE <<>>)
        \o SubSeq(field, start + 1, end)
        \o (IF end < Len(field) THEN Ellipsis ELSE <<>>)

\* the tags put before a snippet, naming the field it came from (the source
\* writes them in Japanese)
SummaryTag == <<"[summary] ">>
FulltextTag == <<"[fulltext] ">>

\* match_info: a tagged snippet for each of summary, fulltext that holds the
\* keyword
MatchInfo(paper, keyword) ==
    LET summary == OrEmpty(paper.summary)
        fulltext == OrEmpty(paper.fulltext)
    IN  (IF PyIn(PyLowerText(keyword), PyLowerText(summary))
         THEN <<SummaryTag \o Snippet(summary, keyword)>> ELSE <<>>)
        \o (IF PyIn(PyLowerText(keyword), PyLowerText(fulltext))
            THEN <<FulltextTag \o Snippet(fulltext, keyword)>> ELSE <<>>)

\* match_info[0] if match_info else ""
MatchText(paper, keyword) ==
    IF MatchInfo(paper, keyword) = <<>> THEN <<>>
    ELSE MatchInfo(paper, keyword)[1]

\* _display_fulltext_results: the rows put into fulltext_tree
FulltextRows(rows, keyword) ==
    [i \in 1..Len(rows) |->
        [id |-> rows[i].id, title |-> rows[i].title,
         authors |-> rows[i].authors, year |-> rows[i].year,
         match_text |-> MatchText(rows[i], keyword)]]

\* the keyword entry and the two target checkboxes
ScanForm(keyword, search_summary, search_content) ==
    [keyword |-> keyword, search_summary |-> search_summary,
     search_content |-> search_content]

\* the checks without the one of the targets
ScanChecks_no_target(keyword, search_summary, search_content) ==
    IF keyword = <<>> THEN "keyword_required" ELSE "ok"

\* _execute_fulltext_search, the checks before the search: the warning
\* shown, or "ok"
ScanChecks(keyword, search_summary, search_content) ==
    IF keyword = <<>> THEN "keyword_required"
    ELSE IF ~search_summary /\ ~search_content THEN "select_target"
    ELSE "ok"

\* the filter on the rows fulltext_search returned
Include(paper, keyword, search_summary, search_content) ==
    \/ /\ search_summary
       /\ PyIn(PyLowerText(keyword), PyLowerText(OrEmpty(paper.summary)))
    \/ /\ search_content
       /\ PyIn(PyLowerText(keyword), PyLowerText(OrEmpty(paper.fulltext)))

_execute_fulltext_search(form) ==
    LET keyword == Strip(form.keyword)
        err == ScanChecks(keyword, form.search_summary, form.search_content)
        found == fulltext_search(keyword)
        Keep(paper) == Include(paper, keyword, form.search_summary,
                               form.search_content)
    IN  IF err # "ok"
        THEN /\ msg' = <<Dialog("_execute_fulltext_search", "showwarning", err)>>
             /\ last' = NoCall
             /\ UNCHANGED fulltext_tree
        ELSE IF ReadFault
        THEN \* fulltext_search raises: the except branch reports it
             /\ msg' = <<Dialog("_execute_fulltext_search", "showerror",
                                "search_failed")>>
             /\ last' = Call("fulltext_search", Raise("OperationalError"))
             /\ UNCHANGED fulltext_tree
        ELSE /\ last' = Call("fulltext_search", PyInt(Len(found)))
             /\ fulltext_tree' = FulltextRows(SelectSeq(found, Keep), keyword)
             /\ msg' = <<>>

_clear_fulltext_search ==
    /\ fulltext_tree' = <<>>
    /\ msg' = <<>>
    /\ last' = NoCall

\* keywords: none, blank, plain, upper case, a letter outside ASCII, one
\* with a LIKE wildcard
Keywords ==
    {<<>>, <<" ">>, <<"a", "b", " ">>, <<"A", "B">>, <<"é">>, <<"a", "_", "b">>}

ScanForms ==
    {ScanForm(k, ss, sc) : k \in Keywords, ss \in BOOLEAN, sc \in BOOLEAN}

\* records by where the keywords occur: summary only, fulltext only, both,
\* in another case, through a wildcard only
ScanInputs ==
    {Fields(tA, tA, tX, tX, 2020, <<>>, <<"a", "b">>, <<"x">>, <<>>),
     Fields(tB, tB, tX, tX, 2020, <<>>, <<"x">>, <<"x", "a", "B">>, <<>>),
     Fields(tA, tB, tX, tX, 2019, <<>>, <<"A", "b", "x">>, <<"a", "b">>, <<>>),
     Fields(tB, tA, tX, tX, 2019, <<>>, <<"É">>, Null, <<>>),
     Fields(tA, tA, tX, tX, 2021, <<>>, <<"a", "x", "b">>, <<>>, <<>>)}

\* what a step of the keyword tab leaves alone
scanFrame ==
    <<papers, seq, clock, edit_id, edit_listbox, mem_papers, range_tree,
      search_results, text_widget, store_class, moreVars>>

ScanAdd == \E f \in ScanInputs : add_paper(f) /\ UNCHANGED appVars

ExecuteFulltextSearch ==
    \E f \in ScanForms :
        _execute_fulltext_search(f) /\ entries' = f /\ UNCHANGED scanFrame

ClearFulltextSearch ==
    /\ _clear_fulltext_search
    /\ UNCHANGED <<entries, scanFrame>>

NextScan == ScanAdd \/ ExecuteFulltextSearch \/ ClearFulltextSearch

SpecScan == InitApp /\ [][NextScan]_vars

\* n times the character c
Pad(c, n) == [i \in 1..n |-> c]

\* the lengths of context tried on each side of a match: none, and one
\* below, at and one above ContextLen
PadLens == {0, ContextLen - 1, ContextLen, ContextLen + 1}

\* field texts with one match of "ab" in another case, and one whose
\* lower() is longer than the text
SnippetTexts ==
    {Pad("x", n) \o <<"a", "B">> \o Pad("y", m) : n \in PadLens, m \in PadLens}
    \cup {Pad("U+0130", ContextLen + 1) \o <<"a", "b">> \o Pad("x", 5)}

\* one record, with the text as its summary or as its fulltext
SnippetInputs ==
    {Fields(tA, tA, tX, tX, 2020, <<>>, t, <<>>, <<>>) : t \in SnippetTexts}
    \cup {Fields(tA, tA, tX, tX, 2020, <<>>, <<"z">>, t, <<>>) : t \in SnippetTexts}

SnippetForms ==
    {ScanForm(k, ss, sc) : k \in {<<"a", "b">>, <<"b">>}, ss \in BOOLEAN, sc \in BOOLEAN}

SnippetAdd == \E f \in SnippetInputs : seq = 0 /\ add_paper(f) /\ UNCHANGED appVars

SnippetSearch ==
    \E f \in SnippetForms :
        /\ seq > 0
        /\ _execute_fulltext_search(f) /\ entries' = f /\ UNCHANGED scanFrame

NextSnippet == SnippetAdd \/ SnippetSearch \/ ClearFulltextSearch

SpecSnippet == InitApp /\ [][NextSnippet]_vars

----------------------------------------------------------------------------
(* paper_manager_base.py: the preview window *)

\* the lower case Tk gives a character under nocase: the simple lower case
\* of Unicode, one character for one (U+0130 becomes i)
TkLower(c) ==
    IF c = "É" THEN "é" ELSE IF c = "U+0130" THEN "i" ELSE Lower(c)

\* the bytes a character takes in the text widget (UTF-8)
Utf8Len(c) == IF c \in {"É", "é", "U+0130", "U+0307"} THEN 2 ELSE 1

RECURSIVE ByteOffset(_, _)
\* the bytes of text before place p (from 1); a place after the end of the
\* line is the end of the line
ByteOffset(text, p) ==
    IF p <= 1 THEN 0
    ELSE IF p > Len(text) + 1 THEN ByteOffset(text, Len(text) + 1)
    ELSE ByteOffset(text, p - 1) + Utf8Len(text[p - 1])

\* Tk compares with nocase: the keyword is at place p of content (from 1)
MatchAt(content, keyword, p) ==
    /\ p + Len(keyword) - 1 <= Len(content)
    /\ \A k \in 1..Len(keyword) :
          TkLower(content[p + k - 1]) = TkLower(keyword[k])

\* text_widget.search(keyword, start_pos, stopindex=tk.END, nocase=True):
\* the place found (from 1), 0 for "". Tk looks for the keyword in the
\* line turned to lower case, from the byte offset start_pos has in the line
\* as it is stored, and reads the byte offset of the match as an offset
\* into the stored line again (an offset inside a character is the end of
\* that character): where U+0130 stands before the match, the lower-case
\* line is shorter than the stored one, the search starts further right
\* and the place found lies further left. An empty keyword is found at
\* start_pos itself.
TkSearch(content, keyword, start_pos) ==
    LET line == [i \in 1..Len(content) |-> TkLower(content[i])]
        startOffset == ByteOffset(content, start_pos)
        Hit(q) ==
            /\ ByteOffset(line, q) >= startOffset
            /\ MatchAt(content, keyword, q)
        first == CHOOSE q \in 1..Len(content) :
                    Hit(q) /\ \A s \in 1..(q - 1) : ~Hit(s)
        matchOffset == IF keyword = <<>> THEN startOffset
                       ELSE ByteOffset(line, first)
    IN  IF \/ keyword = <<>> /\ startOffset <= ByteOffset(line, Len(line) + 1)
           \/ keyword # <<>> /\ \E q \in 1..Len(content) : Hit(q)
        THEN CHOOSE r \in 1..(Len(content) + 1) :
                /\ ByteOffset(content, r) >= matchOffset
                /\ \A s \in 1..(r - 1) : ByteOffset(content, s) < matchOffset
        ELSE 0

RECURSIVE TagFrom(_, _, _)
\* the while loop of _highlight_keyword: the places tagged from start_pos on
TagFrom(content, keyword, start_pos) ==
    LET found == TkSearch(content, keyword, start_pos)
        end_pos == found + Len(keyword)
    IN  IF found = 0 THEN {}
        ELSE (found..(end_pos - 1)) \cup TagFrom(content, keyword, end_pos)

\* summary_text.insert('1.0', summary) into the new text widget
TextInsert(text) == text_widget' = [content |-> text, highlight |-> {}]

_highlight_keyword(keyword) ==
    text_widget' =
        [text_widget EXCEPT
            !.highlight = @ \cup TagFrom(text_widget.content, keyword, 1)]

\* the keyword of the preview
HighlightForm(keyword) == [highlight_keyword |-> keyword]

\* the longest text shown
MaxText == 4

\* the texts shown: all of up to MaxText characters over a, A, b, and four
\* with letters outside ASCII
Texts ==
    UNION {[1..n -> {"a", "A", "b"}] : n \in 0..MaxText}
    \cup {<<"a", "É", "b">>, <<"É", "é">>, <<"U+0130", "U+0130">>,
          <<"U+0130", "a", "a">>}

\* keywords, none empty: one letter, a letter twice, two letters, three,
\* and two outside ASCII
HighlightKeywords ==
    {<<"a">>, <<"a", "a">>, <<"A", "b">>, <<"a", "b", "a">>, <<"é">>,
     <<"U+0130">>}

previewFrame ==
    <<papers, seq, clock, last, msg, edit_id, edit_listbox, mem_papers,
      range_tree, fulltext_tree, search_results, store_class, moreVars>>

PreviewInsert ==
    \E t \in Texts : TextInsert(t) /\ UNCHANGED <<entries, previewFrame>>

HighlightKeyword ==
    \E k \in HighlightKeywords :
        /\ _highlight_keyword(k)
        /\ entries' = HighlightForm(k)
        /\ UNCHANGED previewFrame

NextHighlight == PreviewInsert \/ HighlightKeyword

\* the preview window, the loop of _highlight_keyword one iteration at a
\* time

\* what the keyword entry may hold when the preview is opened: the keyword
\* of the search, or what is left after the entry was edited or cleared
LoopEntries ==
    {<<"a">>, <<"A", "b", " ">>, <<"a", "a">>, <<>>, <<" ">>}

\* the texts a preview widget shows for a field that is NULL or empty (the
\* source writes them in Japanese)
NoSummaryText == <<"(no summary)">>
NoFulltextText == <<"(no fulltext)">>

loopFrame ==
    <<papers, seq, clock, edit_id, edit_listbox, mem_papers,
      range_tree, search_results, store_class, list_tree,
      edit_paper_ids, edit_papers_data, has_table, db_lock, nav_checked,
      shown_page, issued, backup_file, indexes, delete_pc,
      init_pc>>

\* _highlight_keyword(text_widget, keyword) up to its first search
LoopStart(widget, keyword, paper) ==
    [pc |-> "loop", widget |-> widget, keyword |-> keyword, start_pos |-> 1,
     paper |-> paper]

\* the second tab of the preview: the fulltext and the loop over it, or
\* the placeholder and no search
ShowFulltext(paper, keyword) ==
    IF OrEmpty(paper.fulltext) # <<>>
    THEN /\ TextInsert(paper.fulltext)
         /\ highlight_loop' = LoopStart("fulltext", keyword, paper)
    ELSE /\ TextInsert(NoFulltextText)
         /\ highlight_loop' = LoopIdle

\* the first tab of the preview: the summary and the loop over it, or the
\* placeholder, no search, and on to the second tab
ShowSummary(paper, keyword) ==
    IF OrEmpty(paper.summary) # <<>>
    THEN /\ TextInsert(paper.summary)
         /\ highlight_loop' = LoopStart("summary", keyword, paper)
    ELSE ShowFulltext(paper, keyword)

\* what _show_fulltext_detail and _show_fulltext_preview do first: the
\* selection of fulltext_tree (sel = 0: no row selected), then
\* get_paper_by_id of the id in the selected row; found: the row was read
RowOfSelection(handler, sel, found) ==
    LET paper == get_paper_by_id(fulltext_tree[sel].id)
    IN  /\ sel \in 0..Len(fulltext_tree)
        /\ IF sel = 0
           THEN /\ msg' = <<Dialog(handler, "showwarning", "select_paper")>>
                /\ last' = NoCall
                /\ ~found
           ELSE IF ReadFault
           THEN \* get_paper_by_id raises and the exception leaves the
                \* handler
                /\ last' = Call("get_paper_by_id", Raise("OperationalError"))
                /\ msg' = <<Dialog(handler, "exception", "OperationalError")>>
                /\ ~found
           ELSE IF paper = None
           THEN /\ last' = Call("get_paper_by_id", None)
                /\ msg' = <<Dialog(handler, "showerror", "not_found")>>
                /\ ~found
           ELSE /\ last' = Call("get_paper_by_id", PyInt(paper.id))
                /\ msg' = <<>>
                /\ found

\* _show_fulltext_detail: the row of the selection is read and handed to
\* _show_paper_detail_window, which opens a window of labels
_show_fulltext_detail(sel) ==
    /\ \E found \in BOOLEAN : RowOfSelection("_show_fulltext_detail", sel, found)
    /\ UNCHANGED <<text_widget, highlight_loop>>

\* _show_fulltext_preview up to the first search of _highlight_keyword:
\* the row of the selection is read, keyword =
\* self.fulltext_keyword.get().strip(), the summary, if it is not empty,
\* is inserted and start_pos = '1.0'.  entry: what the keyword entry holds
_show_fulltext_preview(sel, entry) ==
    \E found \in BOOLEAN :
        /\ RowOfSelection("_show_fulltext_preview", sel, found)
        /\ IF found
           THEN ShowSummary(get_paper_by_id(fulltext_tree[sel].id),
                            Strip(entry))
           ELSE UNCHANGED <<text_widget, highlight_loop>>

\* records to preview: every text as the summary, with and without a
\* fulltext
LoopInputs ==
    {Fields(tA, tA, tX, tX, 2020, <<>>, t, u, <<>>) :
        t \in Texts, u \in {Null, <<"b", "a">>}}

\* the store and the result tree change only between two handlers
LoopAdd ==
    /\ highlight_loop.pc = "idle"
    /\ seq = 0
    /\ \E f \in LoopInputs : add_paper(f) /\ UNCHANGED appVars

LoopDelete ==
    /\ highlight_loop.pc = "idle"
    /\ \E id \in CallerIds : delete_paper(id) /\ UNCHANGED appVars

LoopSearch ==
    /\ highlight_loop.pc = "idle"
    /\ _execute_fulltext_search(ScanForm(<<"a">>, TRUE, TRUE))
    /\ entries' = ScanForm(<<"a">>, TRUE, TRUE)
    /\ UNCHANGED scanFrame

DetailOpen ==
    /\ highlight_loop.pc = "idle"
    /\ \E sel \in 0..MaxAdds : _show_fulltext_detail(sel)
    /\ UNCHANGED <<entries, fulltext_tree, loopFrame>>

PreviewOpen ==
    /\ highlight_loop.pc = "idle"
    /\ \E sel \in 0..MaxAdds, e \in LoopEntries :
          /\ _show_fulltext_preview(sel, e)
          /\ entries' = HighlightForm(e)
    /\ UNCHANGED <<fulltext_tree, loopFrame>>

\* one pass of "while True": search from start_pos; nothing found: break,
\* and _show_fulltext_preview goes on to the tab that comes next; else
\* tag_add(start_pos, end_pos) and start_pos = end_pos
LoopStep ==
    LET keyword == highlight_loop.keyword
        found == TkSearch(text_widget.content, keyword,
                          highlight_loop.start_pos)
        end_pos == found + Len(keyword)
    IN  /\ highlight_loop.pc = "loop"
        /\ IF found = 0
           THEN IF highlight_loop.widget = "summary"
                THEN ShowFulltext(highlight_loop.paper, keyword)
                ELSE /\ highlight_loop' = LoopIdle
                     /\ UNCHANGED text_widget
           ELSE /\ text_widget' =
                     [text_widget EXCEPT
                         !.highlight = @ \cup (found..(end_pos - 1))]
                /\ highlight_loop' =
                     [highlight_loop EXCEPT !.start_pos = end_pos]
        /\ UNCHANGED <<entries, last, msg, fulltext_tree, loopFrame>>

NextLoop ==
    \/ LoopAdd
    \/ LoopDelete
    \/ LoopSearch
    \/ DetailOpen
    \/ PreviewOpen
    \/ LoopStep

\* a pass of the loop that can run does run: the handler is not interrupted
SpecLoop == InitApp /\ [][NextLoop]_vars /\ WF_vars(LoopStep)

SpecHighlight == InitApp /\ [][NextHighlight]_vars

----------------------------------------------------------------------------
(* main.py: the search page *)

\* main.py: the line put into the search_results listbox,
\* f'{id}: {title} - {authors} ({year})'
SearchLine(paper) ==
    IntToStr(paper.id) \o <<":", " ">> \o paper.title \o <<" ", "-", " ">>
    \o paper.authors \o <<" ", "(">> \o IntToStr(paper.year) \o <<")">>

\* the search entry of main.py
SearchForm(search_input) == [search_input |-> search_input]

\* main.py PaperManagerApp._perform_search
_perform_search(form) ==
    LET keyword == PyLowerText(Strip(form.search_input))
        Hit(paper) ==
            \/ PyIn(keyword, PyLowerText(OrEmpty(paper.title)))
            \/ PyIn(keyword, PyLowerText(OrEmpty(paper.authors)))
        found == SelectSeq(mem_papers, Hit)
    IN  /\ search_results' = [i \in 1..Len(found) |-> SearchLine(found[i])]
        /\ last' = Call("get_all", PyInt(Len(mem_papers)))
        /\ msg' = <<>>

\* keywords typed into the search entry: none, blank, two that occur in
\* the records, one that does not
SearchInputs == {<<>>, <<" ">>, <<"t", " ">>, <<"A">>, <<"z">>}

PerformSearch ==
    \E k \in SearchInputs :
        /\ _perform_search(SearchForm(k))
        /\ entries' = SearchForm(k)
        /\ UNCHANGED <<papers, seq, clock, edit_id, edit_listbox, mem_papers,
                       range_tree, fulltext_tree, text_widget, store_class,
                       moreVars>>

NextMain == HandleSave \/ PerformSearch

\* main.py PaperManagerApp(): an empty InMemoryPaperStore
SpecMain == InitStore /\ [][NextMain]_vars

----------------------------------------------------------------------------
(* The three stores side by side *)

StoreClasses == {"PaperDatabase", "Database", "InMemoryPaperStore"}

\* PaperDatabase(), Database() or InMemoryPaperStore(): a run of the
\* program starts on one of the stores, chosen while nothing is stored; the
\* connections of the run before are closed. Database() runs _init_db: the
\* table and the two indexes are there afterwards; the other two create
\* nothing
Open(c) ==
    /\ papers = {} /\ seq = 0 /\ mem_papers = <<>>
    /\ store_class # c
    /\ store_class' = c
    /\ db_lock' = "none"
    /\ has_table' = (has_table \/ c = "Database")
    /\ indexes' = (IF c = "Database" THEN IndexNames ELSE indexes)
    /\ UNCHANGED <<papers, seq, clock, last, msg, edit_id, edit_listbox,
                   mem_papers, entries, range_tree, fulltext_tree,
                   search_results, text_widget, list_tree, edit_paper_ids,
                   edit_papers_data, nav_checked, shown_page, highlight_loop,
                   issued, backup_file, delete_pc, init_pc>>

\* field sets passed to PaperDatabase.add_paper: one stored, one refused
IdInputs ==
    {Fields(tA, tB, tX, tX, 2020, <<>>, <<>>, <<>>, <<>>),
     Fields(Null, tA, tX, tX, 2020, <<>>, <<>>, <<>>, <<>>)}

\* dictionaries passed to Database.add_paper: without an id, with each of
\* the ids a record can have, without a title, and with the key id
\* followed by a key that holds SQL text
IdDicts ==
    {[title |-> tA], [id |-> 1]}
    \cup {[title |-> tB, id |-> i] : i \in CallerIds}
    \cup {DictSet([id |-> i], UpsertKey, tB) : i \in CallerIds}

\* dictionaries passed to Database.update_paper: a new id, a new title
IdUpdates == {[id |-> i] : i \in CallerIds} \cup {[title |-> tB]}

IdsOpen == \E c \in StoreClasses : Open(c)

IdsAdd ==
    /\ store_class = "PaperDatabase"
    /\ \E f \in IdInputs : add_paper(f) /\ UNCHANGED callVars

IdsDelete ==
    /\ store_class = "PaperDatabase"
    /\ \E id \in CallerIds : delete_paper(id) /\ UNCHANGED appVars

IdsDbAdd ==
    /\ store_class = "Database"
    /\ \E d \in IdDicts : Database_add_paper(d) /\ UNCHANGED appVars

IdsDbUpdate ==
    /\ store_class = "Database"
    /\ \E id \in CallerIds, d \in IdUpdates :
          Database_update_paper(id, d) /\ UNCHANGED appVars

IdsDbDelete ==
    /\ store_class = "Database"
    /\ \E id \in CallerIds : Database_delete_paper(id) /\ UNCHANGED appVars

IdsMemAdd ==
    /\ store_class = "InMemoryPaperStore"
    /\ \E t \in {tA, tB}, y \in {2019, 2020} :
          /\ InMemoryPaperStore_add_paper(t, tX, y, <<>>, <<>>, <<>>, <<>>)
          /\ UNCHANGED <<papers, seq, clock, msg, edit_id, edit_listbox,
                         entries, restVars>>

NextIds ==
    \/ IdsOpen
    \/ IdsAdd
    \/ IdsDelete
    \/ IdsDbAdd
    \/ IdsDbUpdate
    \/ IdsDbDelete
    \/ IdsMemAdd
    \/ store_class = "Database" /\ DbBackup
    \/ store_class = "Database" /\ DbRestore
    \/ UnlockFile

SpecIds == InitStore /\ [][NextIds]_vars

\* add_paper and delete_paper with the ids returned so far kept in issued

reuseFrame ==
    <<msg, edit_id, edit_listbox, mem_papers, entries, range_tree,
      fulltext_tree, search_results, text_widget, store_class, list_tree,
      edit_paper_ids, edit_papers_data, has_table, nav_checked,
      shown_page, highlight_loop, backup_file, indexes, delete_pc,
      init_pc>>

\* the caller keeps the id a call of add_paper returned
Issue ==
    issued' = IF last'.op = "add_paper" /\ last'.ret.py = "int"
              THEN issued \cup {last'.ret.v}
              ELSE issued

\* dictionaries passed to Database.add_paper: without an id and with each
\* of the ids a record can have
ReuseDicts == {[title |-> tA]} \cup {[title |-> tB, id |-> i] : i \in CallerIds}

ReuseOpen == \E c \in {"PaperDatabase", "Database"} : Open(c)

ReuseAdd ==
    /\ store_class = "PaperDatabase"
    /\ \E f \in IdInputs : add_paper(f) /\ Issue /\ UNCHANGED reuseFrame

ReuseDelete ==
    /\ store_class = "PaperDatabase"
    /\ \E id \in CallerIds :
          delete_paper(id) /\ Issue /\ UNCHANGED <<reuseFrame, db_lock>>

ReuseDbAdd ==
    /\ store_class = "Database"
    /\ \E d \in ReuseDicts :
          Database_add_paper(d) /\ Issue /\ UNCHANGED <<reuseFrame, db_lock>>

ReuseDbDelete ==
    /\ store_class = "Database"
    /\ \E id \in CallerIds :
          Database_delete_paper(id) /\ Issue
          /\ UNCHANGED <<reuseFrame, db_lock>>

ReuseTick == Tick /\ UNCHANGED appVars

NextReuse ==
    \/ ReuseOpen
    \/ ReuseAdd
    \/ ReuseDelete
    \/ ReuseDbAdd
    \/ ReuseDbDelete
    \/ ReuseTick
    \/ store_class = "Database" /\ DbBackup
    \/ store_class = "Database" /\ DbRestore
    \/ UnlockFile

SpecReuse == InitStore /\ [][NextReuse]_vars

-----------------------------------------------------------------------------
(* Startup: the database file and the table papers *)

\* the classes that keep their records in a database file
FileClasses == {"PaperDatabase", "Database", "db.PaperDatabase"}

\* a directory without papers.db and no store constructed
InitSchema ==
    /\ init_db
    /\ has_table = FALSE
    /\ store_class = "none"
    /\ clock = 0
    /\ last = NoCall
    /\ msg = <<>>
    /\ edit_id = Dash
    /\ edit_listbox = <<>>
    /\ mem_papers = <<>>
    /\ entries = <<>>
    /\ range_tree = <<>>
    /\ fulltext_tree = <<>>
    /\ search_results = <<>>
    /\ text_widget = [content |-> <<>>, highlight |-> {}]
    /\ list_tree = <<>>
    /\ edit_paper_ids = <<>>
    /\ edit_papers_data = <<>>
    /\ db_lock = "none"
    /\ nav_checked = {}
    /\ shown_page = "none"
    /\ highlight_loop = LoopIdle
    /\ issued = {}
    /\ backup_file = NoBackup
    /\ indexes = {}
    /\ delete_pc = "idle"
    /\ init_pc = "idle"

schemaFrame ==
    <<clock, msg, edit_id, edit_listbox, mem_papers, entries, range_tree,
      fulltext_tree, search_results, text_widget, list_tree, edit_paper_ids,
      edit_papers_data, nav_checked, shown_page,
      highlight_loop, issued, backup_file, delete_pc>>

\* CREATE TABLE IF NOT EXISTS papers (...) ; commit
CreateTable ==
    /\ has_table' = TRUE
    /\ UNCHANGED <<papers, seq>>

\* Database.__init__ up to the end of its first statement, CREATE TABLE IF
\* NOT EXISTS papers.  Python's sqlite3 opens no transaction for a schema
\* statement: each one is committed as it ends, and the conn.commit() that
\* closes _init_db has nothing left to write.
_init_db_table ==
    /\ init_pc = "idle"
    /\ IF StatementFault(has_table)
       THEN \* the exception leaves the constructor: no object is made
            /\ last' = Call("Database", Raise("OperationalError"))
            /\ UNCHANGED <<papers, seq, has_table, init_pc>>
       ELSE /\ CreateTable
            /\ init_pc' = "index_year"
            /\ UNCHANGED last
    /\ UNCHANGED <<indexes, store_class>>

\* the second statement of Database._init_db: CREATE INDEX IF NOT EXISTS
\* idx_papers_year
_init_db_index_year ==
    /\ init_pc = "index_year"
    /\ IF StatementFault("idx_papers_year" \in indexes)
       THEN /\ last' = Call("Database", Raise("OperationalError"))
            /\ init_pc' = "idle"
            /\ UNCHANGED indexes
       ELSE /\ indexes' = indexes \cup {"idx_papers_year"}
            /\ init_pc' = "index_title"
            /\ UNCHANGED last
    /\ UNCHANGED <<papers, seq, has_table, store_class>>

\* the third statement of Database._init_db, CREATE INDEX IF NOT EXISTS
\* idx_papers_title, then conn.commit() and the constructor returns
_init_db_index_title ==
    /\ init_pc = "index_title"
    /\ IF StatementFault("idx_papers_title" \in indexes)
       THEN /\ last' = Call("Database", Raise("OperationalError"))
            /\ UNCHANGED <<indexes, store_class>>
       ELSE /\ indexes' = indexes \cup {"idx_papers_title"}
            /\ store_class' = "Database"
            /\ last' = Call("Database", None)
    /\ init_pc' = "idle"
    /\ UNCHANGED <<papers, seq, has_table>>

\* the constructor of class c.  Database runs the first statement of its
\* _init_db (the other two follow as steps of their own); db.py's
\* PaperDatabase runs its one statement; the PaperDatabase of
\* paper_manager_base keeps the file name and nothing else
Construct(c) ==
    /\ init_pc = "idle"
    /\ store_class \in {"none", c}
    /\ IF c = "Database"
       THEN _init_db_table
       ELSE IF c = "PaperDatabase"
       THEN /\ store_class' = c
            /\ last' = Call(c, None)
            /\ UNCHANGED <<papers, seq, has_table, indexes, init_pc>>
       ELSE IF StatementFault(has_table)
       THEN /\ last' = Call(c, Raise("OperationalError"))
            /\ UNCHANGED <<papers, seq, has_table, indexes, init_pc,
                           store_class>>
       ELSE /\ CreateTable
            /\ store_class' = c
            /\ last' = Call(c, None)
            /\ UNCHANGED <<indexes, init_pc>>
    /\ UNCHANGED <<schemaFrame, db_lock>>

\* Database() goes on: the statements that create the indexes
ConstructIndexYear ==
    _init_db_index_year /\ UNCHANGED <<schemaFrame, db_lock>>

ConstructIndexTitle ==
    _init_db_index_title /\ UNCHANGED <<schemaFrame, db_lock>>

\* the module function init_db() of paper_manager_base, as __main__ calls
\* it before PaperManagerApp(): one statement
SchemaInitDb ==
    /\ init_pc = "idle"
    /\ store_class \in {"none", "PaperDatabase"}
    /\ IF StatementFault(has_table)
       THEN /\ last' = Call("init_db", Raise("OperationalError"))
            /\ UNCHANGED <<papers, seq, has_table>>
       ELSE /\ CreateTable
            /\ last' = Call("init_db", None)
    /\ UNCHANGED <<store_class, schemaFrame, db_lock, indexes, init_pc>>

\* a start in a directory that has no papers.db
NewFile ==
    /\ init_pc = "idle"
    /\ store_class # "none"
    /\ papers' = {} /\ seq' = 0
    /\ has_table' = FALSE
    /\ indexes' = {}
    /\ store_class' = "none"
    /\ last' = NoCall
    /\ db_lock' = "none"
    /\ UNCHANGED <<schemaFrame, init_pc>>

\* a call is made once the constructor has returned
SchemaAdd ==
    \/ /\ store_class = "PaperDatabase"
       /\ \E f \in IdInputs : add_paper(f) /\ UNCHANGED callVars
    \/ /\ store_class = "Database"
       /\ init_pc = "idle"
       /\ \E d \in {[title |-> tA], [title |-> tB]} :
             Database_add_paper(d) /\ UNCHANGED appVars
    \/ /\ store_class = "db.PaperDatabase"
       /\ \E f \in IdInputs : db_add_paper(f) /\ UNCHANGED appVars

\* PaperDatabase.get_all_papers(): SELECT ... FROM papers
SchemaGetAll ==
    /\ store_class = "PaperDatabase"
    /\ last' = Call("get_all_papers",
                    IF ReadFault THEN Raise("OperationalError")
                    ELSE PyInt(Len(get_all_papers)))
    /\ UNCHANGED <<papers, seq, has_table, indexes, init_pc, store_class,
                   schemaFrame, db_lock>>

SchemaTick == Tick /\ UNCHANGED appVars

NextSchema ==
    \/ \E c \in FileClasses : Construct(c)
    \/ ConstructIndexYear
    \/ ConstructIndexTitle
    \/ SchemaInitDb
    \/ NewFile
    \/ SchemaAdd
    \/ SchemaGetAll
    \/ SchemaTick
    \/ UnlockFile

SpecSchema == InitSchema /\ [][NextSchema]_vars

-----------------------------------------------------------------------------
(* src/main.py and src/ui/main_window.py: Database(), then MainWindow()    *)

\* the keys of nav_buttons, which are the names of pages
Pages == {"home", "list", "add", "search", "stats", "settings"}

\* names switch_page may be called with: the pages and two that are none
PageNames == Pages \cup {"help", ""}

\* for btn in self.nav_buttons.values(): btn.setChecked(False), with the
\* checked buttons kept as they are
Unchecked_none(checked) == checked

\* for btn in self.nav_buttons.values(): btn.setChecked(False)
Unchecked(checked) == {}

\* switch_page(page_name) on a window with these checked buttons and this
\* page shown
SwitchResult(checked, shown, page_name) ==
    IF page_name \in Pages
    THEN [checked |-> Unchecked(checked) \cup {page_name},
          shown |-> page_name]
    ELSE [checked |-> checked, shown |-> shown]

\* a click on a checkable button that is not auto-exclusive toggles it
\* before clicked is emitted
Toggled(checked, key) ==
    IF key \in checked THEN checked \ {key} ELSE checked \cup {key}

\* rows an earlier run may have left in papers.db
FileRows ==
    {MkRow(i, Fields(tA, Null, Null, Null, NullInt, Null, Null, Null, Null),
           0, 0) : i \in 1..3}

\* the program starts: papers.db is missing, or holds the table with rows
\* of earlier runs, and another program may hold its write lock
InitWindow ==
    /\ has_table \in BOOLEAN
    /\ indexes \in SUBSET IndexNames
    /\ indexes # {} => has_table
    /\ papers \in SUBSET FileRows
    /\ papers # {} => has_table
    /\ seq = MaxOf(Ids)
    /\ db_lock \in LockKinds
    /\ store_class = "none"
    /\ clock = 0
    /\ last = NoCall
    /\ msg = <<>>
    /\ edit_id = Dash
    /\ edit_listbox = <<>>
    /\ mem_papers = <<>>
    /\ entries = <<>>
    /\ range_tree = <<>>
    /\ fulltext_tree = <<>>
    /\ search_results = <<>>
    /\ text_widget = [content |-> <<>>, highlight |-> {}]
    /\ list_tree = <<>>
    /\ edit_paper_ids = <<>>
    /\ edit_papers_data = <<>>
    /\ nav_checked = {}
    /\ shown_page = "none"
    /\ highlight_loop = LoopIdle
    /\ issued = {}
    /\ backup_file = NoBackup
    /\ delete_pc = "idle"
    /\ init_pc = "idle"

windowFrame ==
    <<clock, edit_id, edit_listbox, mem_papers, entries, range_tree,
      fulltext_tree, search_results, text_widget, list_tree, edit_paper_ids,
      edit_papers_data, db_lock, highlight_loop, issued, backup_file,
      delete_pc>>

\* what setup_application does with the outcome of Database(): the except
\* branch reports the exception in a dialog and the program goes on
StartReport ==
    msg' = IF last' # last /\ last'.ret = Raise("OperationalError")
           THEN <<Dialog("setup_application", "show_error_message",
                         "database_error")>>
           ELSE msg

\* setup_application: db = Database(), the first statement of _init_db
StartDatabase ==
    /\ last = NoCall
    /\ _init_db_table
    /\ StartReport
    /\ UNCHANGED <<nav_checked, shown_page, windowFrame>>

\* db = Database() goes on: the statements that create the indexes, each
\* on the file as another connection has left it by then
StartIndexYear ==
    /\ _init_db_index_year
    /\ StartReport
    /\ UNCHANGED <<nav_checked, shown_page, windowFrame>>

StartIndexTitle ==
    /\ _init_db_index_title
    /\ StartReport
    /\ UNCHANGED <<nav_checked, shown_page, windowFrame>>

\* MainWindow(): _create_sidebar, _setup_pages, _connect_signals, which
\* ends with nav_buttons["home"].setChecked(True) ; switch_page("home")
MainWindow ==
    /\ last.op = "Database"
    /\ shown_page = "none"
    /\ nav_checked' = SwitchResult({"home"}, "home", "home").checked
    /\ shown_page' = SwitchResult({"home"}, "home", "home").shown
    /\ last' = Call("MainWindow", None)
    /\ UNCHANGED <<papers, seq, has_table, indexes, init_pc,
                   store_class, msg, windowFrame>>

switch_page(page_name) ==
    /\ shown_page # "none"
    /\ nav_checked' = SwitchResult(nav_checked, shown_page, page_name).checked
    /\ shown_page' = SwitchResult(nav_checked, shown_page, page_name).shown
    /\ last' = Call("switch_page", None)
    /\ UNCHANGED <<papers, seq, has_table, indexes, init_pc,
                   store_class, msg, windowFrame>>

\* the user clicks nav_buttons[key]: the button toggles, then the slot
\* connected to clicked runs switch_page(key)
Click(key) ==
    /\ shown_page # "none"
    /\ nav_checked' =
          SwitchResult(Toggled(nav_checked, key), shown_page, key).checked
    /\ shown_page' =
          SwitchResult(Toggled(nav_checked, key), shown_page, key).shown
    /\ last' = Call("clicked", None)
    /\ UNCHANGED <<papers, seq, has_table, indexes, init_pc,
                   store_class, msg, windowFrame>>

NextWindow ==
    \/ StartDatabase
    \/ StartIndexYear
    \/ StartIndexTitle
    \/ LockFile
    \/ UnlockFile
    \/ MainWindow
    \/ \E name \in PageNames : switch_page(name)
    \/ \E key \in Pages : Click(key)

SpecWindow == InitWindow /\ [][NextWindow]_vars

----------------------------------------------------------------------------
(* Claims about the store API *)

\* a field set that passes the validation rules: title and authors not
\* empty, year in [1000, 9999]
ValidFields(f) ==
    /\ f.title \notin {<<>>, Null}
    /\ f.authors \notin {<<>>, Null}
    /\ f.year >= 1000 /\ f.year <= 9999

\* C1: add_paper of a valid field set returns an id unless the file is
\* locked or has no table; get_paper_by_id of the returned id gives a row
\* that has the input fields, the returned id, and created_at = updated_at;
\* a later add, or an update or delete of another id, leaves what
\* get_paper_by_id returns for this id unchanged.
C1_AddThenGet ==
    [][ /\ \A f \in {g \in StoreInputs : ValidFields(g)}, k \in CallerIds :
              (last'.ret = PyInt(k) /\ add_paper(f)) =>
                  /\ get_paper_by_id(k)' # None
                  /\ FieldsOf(get_paper_by_id(k)') = f
                  /\ get_paper_by_id(k)'.id = k
                  /\ get_paper_by_id(k)'.created_at
                         = get_paper_by_id(k)'.updated_at
        /\ \A f \in {g \in StoreInputs : ValidFields(g)} :
              \/ last'.op # "add_paper"
              \/ last'.ret.py = "int"
              \/ StoreFault
              \/ ~add_paper(f)
        /\ \A k \in Ids :
              \/ get_paper_by_id(k)' = get_paper_by_id(k)
              \/ ~(\/ /\ last'.op = "add_paper"
                      /\ \E f \in StoreInputs : add_paper(f)
                   \/ /\ last'.op = "update_paper"
                      /\ \E j \in CallerIds \ {k}, f \in StoreInputs :
                             update_paper(j, f)
                   \/ /\ last'.op = "delete_paper"
                      /\ \E j \in CallerIds \ {k} : delete_paper(j))
      ]_vars

\* C1 witness: a valid record as it was added sits in the store after an
\* update or delete of another id
C1_Witness ==
    /\ last.op \in {"update_paper", "delete_paper"}
    /\ \E r \in papers :
          /\ ValidFields(FieldsOf(r))
          /\ r.created_at = r.updated_at
          /\ r.id < seq
          /\ clock > r.created_at


\* C2: an update of an existing record leaves its id and created_at as they
\* were, changes only the fields supplied and updated_at, and modifies no
\* other record (Database.update_paper, any update_data).
C2_UpdateFrame ==
    [][ \A id \in CallerIds, d \in UpdateDicts :
            (Database_update_paper(id, d) /\ id \in Ids) =>
                /\ id \in Ids'
                /\ get_paper_by_id(id)'.created_at
                       = get_paper_by_id(id).created_at
                /\ \A c \in Columns \ (DOMAIN d \cup {"updated_at"}) :
                       get_paper_by_id(id)'[c] = get_paper_by_id(id)[c]
                /\ \A k \in Ids \ {id} :
                       get_paper_by_id(k)' = get_paper_by_id(k)
      ]_vars

\* the same for PaperDatabase.update_paper, which supplies all nine fields
C2_BaseUpdateFrame ==
    [][ \A id \in CallerIds, f \in StoreInputs :
            (update_paper(id, f) /\ id \in Ids) =>
                /\ id \in Ids'
                /\ get_paper_by_id(id)'.created_at
                       = get_paper_by_id(id).created_at
                /\ last'.ret.py # "raise" =>
                       /\ FieldsOf(get_paper_by_id(id)') = f
                       /\ get_paper_by_id(id)'.updated_at = clock
                /\ \A k \in Ids \ {id} :
                       get_paper_by_id(k)' = get_paper_by_id(k)
      ]_vars

\* what tells a caller that the id was not found: False (the convention of
\* Database.update_paper / delete_paper) or a not-found error; a plain
\* None is what the successful call returns
NotFoundSignal(ret) ==
    \/ ret = PyBool(FALSE)
    \/ (ret.py = "raise" /\ ret.exc = "NotFoundError")

\* C3: after delete_paper(id) reading the id returns no record; delete_paper
\* of an id that was already deleted signals not-found, does not raise and
\* leaves the store unchanged.
C3_DeleteTwice ==
    [][ \A id \in CallerIds :
            delete_paper(id) =>
                /\ get_paper_by_id(id)' = None
                /\ (id <= seq /\ id \notin Ids) =>
                       /\ NotFoundSignal(last'.ret)
                       /\ last'.ret.py # "raise"
                       /\ papers' = papers
      ]_vars

\* C4: update_paper of an id that is not in the store signals not-found,
\* which a successful update does not, and leaves the store unchanged.
C4_UpdateMissing ==
    [][ \A id \in CallerIds, f \in StoreInputs :
            update_paper(id, f) =>
                IF id \in Ids
                THEN ~NotFoundSignal(last'.ret)
                ELSE NotFoundSignal(last'.ret) /\ papers' = papers
      ]_vars

\* C9: get_all_papers lists every record, by year descending and, within a
\* year, by title ascending.
C9_ListAllOrder ==
    /\ {get_all_papers[i] : i \in 1..Len(get_all_papers)} = papers
    /\ Len(get_all_papers) = Cardinality(papers)
    /\ \A i, j \in 1..Len(get_all_papers) :
          i < j =>
             \/ get_all_papers[i].year > get_all_papers[j].year
             \/ /\ get_all_papers[i].year = get_all_papers[j].year
                /\ ~ColLess(get_all_papers[j].title, get_all_papers[i].title)

\* the criteria tried: each alone, combined, and none
NoCriteria ==
    [title |-> <<>>, authors |-> <<>>, year_from |-> {}, year_to |-> {},
     tags |-> <<>>]

Criteria ==
    {NoCriteria,
     [NoCriteria EXCEPT !.title = <<"a">>],
     [NoCriteria EXCEPT !.title = <<"b">>, !.year_to = {2020}],
     [NoCriteria EXCEPT !.authors = <<"X">>, !.year_from = {2020}],
     [NoCriteria EXCEPT !.year_from = {2020}, !.year_to = {2020}],
     [NoCriteria EXCEPT !.year_from = {0}, !.year_to = {2019}],
     [NoCriteria EXCEPT !.tags = <<"T">>],
     [NoCriteria EXCEPT !.title = <<"_">>, !.authors = <<"x">>]}

Search(c) == search_papers(c.title, c.authors, c.year_from, c.year_to, c.tags)

Where(r, c) ==
    SearchWhere(r, c.title, c.authors, c.year_from, c.year_to, c.tags)

\* the elements of sequence s that satisfy the criteria c, in the order of s
RECURSIVE Matching(_, _)
Matching(s, c) ==
    IF s = <<>> THEN <<>>
    ELSE IF Where(Head(s), c) THEN <<Head(s)>> \o Matching(Tail(s), c)
    ELSE Matching(Tail(s), c)

\* s is t with some of its elements left out: the elements of s are found
\* in t at places that go up
RECURSIVE IsSubsequence(_, _)
IsSubsequence(s, t) ==
    IF s = <<>> THEN TRUE
    ELSE IF t = <<>> THEN FALSE
    ELSE IF Head(s) = Head(t) THEN IsSubsequence(Tail(s), Tail(t))
    ELSE IsSubsequence(s, Tail(t))

\* x occurs in text s, letters compared without case
Contains(s, x) ==
    /\ s # Null
    /\ \E i \in 0..(Len(s) - Len(x)) :
          \A k \in 1..Len(x) : Lower(s[i + k]) = Lower(x[k])

\* record r satisfies every criterion of c that is supplied
Satisfies(r, c) ==
    /\ c.title # <<>> => Contains(r.title, c.title)
    /\ c.authors # <<>> => Contains(r.authors, c.authors)
    /\ \A y \in c.year_from : r.year # NullInt /\ r.year >= y
    /\ \A y \in c.year_to : r.year # NullInt /\ r.year <= y
    /\ c.tags # <<>> => Contains(r.tags, c.tags)

\* C10: for each of the criteria, what search_papers returns is
\* get_all_papers with some records left out, in the same relative order;
\* no record that satisfies the criteria is left out; the records kept are
\* those the query selects; with no criteria it returns the same sequence
\* as get_all_papers.
C10_FilterIsSubsequence ==
    LET all == get_all_papers
    IN  /\ \A c \in Criteria :
              LET found == Search(c)
              IN  /\ IsSubsequence(found, all)
                  /\ \A r \in papers :
                        Satisfies(r, c) =>
                            \E i \in 1..Len(found) : found[i] = r
                  /\ found = Matching(all, c)
        /\ Search(NoCriteria) = all

\* C10 witness: some criteria select at least two records in an order that is
\* not the order of the ids, some select a record and leave one out, and
\* a criterion in upper case selects a record stored in lower case
C10_Witness ==
    /\ \E c \in Criteria \ {NoCriteria} :
          /\ Len(Search(c)) >= 2
          /\ Search(c)[1].id > Search(c)[2].id
    /\ \E c \in Criteria :
          Len(Search(c)) > 0 /\ Len(Search(c)) < Len(get_all_papers)
    /\ \E c \in Criteria :
          c.authors = <<"X">> /\ Len(Search(c)) > 0

\* C11: search_papers returns exactly the records that satisfy every
\* supplied criterion: title contains the title text, authors contains the
\* authors text, year_from <= year <= year_to, tags contains the tags text.
C11_FilterExact ==
    \A c \in Criteria :
        {Search(c)[i] : i \in 1..Len(Search(c))}
            = {r \in papers : Satisfies(r, c)}

----------------------------------------------------------------------------
(* Claims about validation in the save and update handlers *)

\* the year text is an integer in [1000, 9999]
YearTextValid(y) ==
    /\ Strip(y) # <<>>
    /\ IsIntLiteral(y)
    /\ IntValue(y) >= 1000 /\ IntValue(y) <= 9999

\* the first rule the form fails, in the order title, authors, year
FirstFailure(form) ==
    IF Strip(form.title) = <<>> THEN "title"
    ELSE IF Strip(form.authors) = <<>> THEN "authors"
    ELSE IF ~YearTextValid(form.year_str) THEN "year"
    ELSE "none"

\* the rule a warning text reports
RuleOf(text) ==
    CASE text = "title_required" -> "title"
      [] text = "authors_required" -> "authors"
      [] text \in {"year_required", "year_invalid"} -> "year"
      [] OTHER -> "other"

\* C5: every record the handlers have persisted has a title and authors that
\* are not empty and a year in [1000, 9999].
C5_PersistedValid ==
    \A r \in papers :
        /\ r.title \notin {<<>>, Null} /\ Strip(r.title) # <<>>
        /\ r.authors \notin {<<>>, Null} /\ Strip(r.authors) # <<>>
        /\ r.year >= 1000 /\ r.year <= 9999

\* C5 witness: records at both ends of the year range are stored and an
\* update has just been attempted on a loaded record
C5_Witness ==
    /\ \E r, q \in papers : r.year = 1000 /\ q.year = 9999
    /\ msg # <<>> /\ msg[1].handler = "_update_paper"
    /\ edit_id # Dash

\* C6: when a form fails validation, _save_paper and _update_paper call no
\* store operation and the store is as it was.
C6_InvalidNoWrite ==
    [][ (/\ entries' # <<>>
         /\ FirstFailure(entries') # "none"
         /\ (_save_paper(entries') \/ _update_paper(entries'))) =>
            /\ last' = NoCall
            /\ papers' = papers
            /\ seq' = seq
      ]_vars

\* C6 witness: an update of a loaded record was refused for its year while
\* the store holds records
C6_Witness ==
    /\ msg = <<Dialog("_update_paper", "showwarning", "year_invalid")>>
    /\ edit_id # Dash /\ IntValue(edit_id) \in Ids
    /\ last = NoCall

\* C7: in every save handler a form with title and authors filled is saved
\* when the year is 1000 or 9999 and refused with a year error, nothing
\* persisted, when the year is 999 or 10000.
C7_YearBoundInclusive ==
    [][ (/\ entries' # <<>>
         /\ Strip(entries'.title) # <<>> /\ Strip(entries'.authors) # <<>>
         /\ IsIntLiteral(entries'.year_str)
         /\ IntValue(entries'.year_str) \in {999, 1000, 9999, 10000}
         /\ \/ _save_paper(entries')
            \/ RegisterView_save_paper(entries')
            \/ _handle_save_paper(entries')) =>
            IF IntValue(entries'.year_str) \in {1000, 9999}
            THEN /\ msg'[1].kind = "showinfo"
                 /\ \/ \E r \in papers' \ papers :
                          r.year = IntValue(entries'.year_str)
                    \/ /\ Len(mem_papers') = Len(mem_papers) + 1
                       /\ mem_papers'[Len(mem_papers')].year
                             = IntValue(entries'.year_str)
            ELSE /\ msg'[1].kind = "showwarning"
                 /\ papers' = papers
                 /\ mem_papers' = mem_papers
      ]_vars

\* C8: save and update report exactly the error of the first rule the form
\* fails, in the order title, authors, year, and nothing else.
C8_FirstFailureWins ==
    [][ (/\ entries' # <<>>
         /\ FirstFailure(entries') # "none"
         /\ \/ _save_paper(entries')
            \/ (edit_id # Dash /\ _update_paper(entries'))
            \/ RegisterView_save_paper(entries')) =>
            /\ Len(msg') = 1
            /\ msg'[1].kind = "showwarning"
            /\ RuleOf(msg'[1].text) = FirstFailure(entries')
      ]_vars

----------------------------------------------------------------------------
(* Claims about the range search *)

\* a supplied year bound is an integer in [1000, 9999]
BoundOk(y) == Strip(y) = <<>> \/ YearTextValid(y)

\* the range form fails a check: a bound that is not a year, or both bounds
\* given and year_from above year_to
RangeInvalid(form) ==
    \/ ~BoundOk(form.year_from_str)
    \/ ~BoundOk(form.year_to_str)
    \/ /\ Strip(form.year_from_str) # <<>> /\ Strip(form.year_to_str) # <<>>
       /\ IntValue(form.year_from_str) > IntValue(form.year_to_str)

\* C12: when a year bound of the range form is not an integer in
\* [1000, 9999], or year_from exceeds year_to, _execute_range_search shows a
\* warning, does not query the store and leaves the rows shown unchanged.
C12_RangeInvalidNoQuery ==
    [][ (/\ entries' # <<>>
         /\ "year_from_str" \in DOMAIN entries'
         /\ RangeInvalid(entries')
         /\ _execute_range_search(entries')) =>
            /\ Len(msg') = 1 /\ msg'[1].kind = "showwarning"
            /\ last' = NoCall
            /\ range_tree' = range_tree
            /\ papers' = papers
      ]_vars

\* C12 witness: rows are shown and the latest search was refused because
\* year_from exceeds year_to
C12_Witness ==
    /\ range_tree # <<>>
    /\ msg = <<Dialog("_execute_range_search", "showwarning", "year_order")>>
    /\ last = NoCall

----------------------------------------------------------------------------
(* Claims about the keyword search *)

\* the form the keyword search read, with a keyword and a target to search
IsScanForm(form) == form # <<>> /\ "search_summary" \in DOMAIN form

\* the lowercased field holds the lowercased keyword
LowerIn(keyword, field) ==
    field # Null /\ PyIn(PyLowerText(keyword), PyLowerText(field))

\* the enabled targets of the form in which the record matches the keyword
SummaryHit(r, form) ==
    form.search_summary /\ LowerIn(Strip(form.keyword), r.summary)

FulltextHit(r, form) ==
    form.search_content /\ LowerIn(Strip(form.keyword), r.fulltext)

\* a search the handler carries out: a keyword and a target are there
ScanStep(form) ==
    /\ IsScanForm(form)
    /\ Strip(form.keyword) # <<>>
    /\ form.search_summary \/ form.search_content
    /\ _execute_fulltext_search(form)

\* C13: a keyword search lists exactly the records whose lowercased summary
\* (summary target enabled) or lowercased fulltext (fulltext target enabled)
\* holds the lowercased keyword.
C13_ScanExact ==
    [][ScanStep(entries') =>
         {fulltext_tree'[i].id : i \in 1..Len(fulltext_tree')}
         = {r.id : r \in {q \in papers : SummaryHit(q, entries')
                                          \/ FulltextHit(q, entries')}}]_vars

\* C15: a keyword search with a keyword but with both targets disabled shows
\* one warning, does not call fulltext_search and leaves the result list
\* and the store as they were.
C15_NoTargetNoQuery ==
    [][(/\ IsScanForm(entries')
        /\ Strip(entries'.keyword) # <<>>
        /\ ~entries'.search_summary /\ ~entries'.search_content
        /\ _execute_fulltext_search(entries'))
       => /\ Len(msg') = 1 /\ msg'[1].kind = "showwarning"
          /\ last' = NoCall
          /\ fulltext_tree' = fulltext_tree
          /\ papers' = papers]_vars

\* a search with both targets disabled was refused while results of an
\* earlier search are listed
C15_Witness ==
    /\ IsScanForm(entries)
    /\ Strip(entries.keyword) # <<>>
    /\ ~entries.search_summary /\ ~entries.search_content
    /\ msg = <<Dialog("_execute_fulltext_search", "showwarning", "select_target")>>
    /\ last = NoCall
    /\ fulltext_tree # <<>>

\* C17: every row a keyword search lists shows the snippet of an enabled
\* target in which the keyword matches, the one of the summary when both
\* enabled targets match.
C17_SnippetOfEnabledField ==
    [][ScanStep(entries') =>
         \A i \in 1..Len(fulltext_tree') :
            LET row == fulltext_tree'[i]
                r == CHOOSE q \in papers : q.id = row.id
                k == Strip(entries'.keyword)
            IN  IF SummaryHit(r, entries')
                THEN row.match_text = SummaryTag \o Snippet(r.summary, k)
                ELSE /\ FulltextHit(r, entries')
                     /\ row.match_text = FulltextTag \o Snippet(r.fulltext, k)]_vars

\* the search of main.py read an entry that is empty after strip
EmptySearchStep(form) ==
    /\ form # <<>> /\ "search_input" \in DOMAIN form
    /\ Strip(form.search_input) = <<>>
    /\ _perform_search(form)

\* the keyword search read a keyword that is empty after strip
EmptyScanStep(form) ==
    /\ IsScanForm(form)
    /\ Strip(form.keyword) = <<>>
    /\ _execute_fulltext_search(form)

\* C14: a keyword that is empty after strip is refused with one warning
\* before anything is searched: no store call is made and the result list
\* stays as it was, in the keyword tab and in the search page of main.py.
C14_EmptyKeywordRejected ==
    [][/\ EmptyScanStep(entries')
          => /\ Len(msg') = 1 /\ msg'[1].kind = "showwarning"
             /\ last' = NoCall
             /\ fulltext_tree' = fulltext_tree
       /\ EmptySearchStep(entries')
          => /\ Len(msg') = 1 /\ msg'[1].kind = "showwarning"
             /\ last' = NoCall
             /\ search_results' = search_results]_vars

\* the place of the first occurrence of the keyword in the field, counted
\* from 0, letters compared without case
Occurs(field, keyword, i) ==
    \A k \in 1..Len(keyword) : PyLower(field[i + k]) = PyLower(keyword[k])

HasOccurrence(field, keyword) ==
    field # Null /\ \E i \in 0..(Len(field) - Len(keyword)) : Occurs(field, keyword, i)

FirstOccurrence(field, keyword) ==
    CHOOSE i \in 0..(Len(field) - Len(keyword)) :
        /\ Occurs(field, keyword, i)
        /\ \A j \in 0..(i - 1) : ~Occurs(field, keyword, j)

\* the snippet as described: the field from max(0, p - 30) to
\* min(len, p + len(keyword) + 30), an ellipsis before it iff p > 30 and
\* after it iff the end was cut
SnippetAt(field, keyword) ==
    LET p == FirstOccurrence(field, keyword)
        from == IF p > ContextLen THEN p - ContextLen ELSE 0
        to == IF p + Len(keyword) + ContextLen < Len(field)
              THEN p + Len(keyword) + ContextLen ELSE Len(field)
    IN  (IF p > ContextLen THEN Ellipsis ELSE <<>>)
        \o SubSeq(field, from + 1, to)
        \o (IF to < Len(field) THEN Ellipsis ELSE <<>>)

\* C16: the match text of every row a keyword search lists is the tag of a
\* field that holds the keyword followed by the snippet around the first
\* occurrence of the keyword in that field, with 30 characters of context
\* on each side and an ellipsis on each side that was cut.
C16_SnippetAroundFirstMatch ==
    [][ScanStep(entries') =>
         \A i \in 1..Len(fulltext_tree') :
            LET row == fulltext_tree'[i]
                r == CHOOSE q \in papers : q.id = row.id
                k == Strip(entries'.keyword)
            IN  \/ /\ HasOccurrence(r.summary, k)
                   /\ row.match_text = SummaryTag \o SnippetAt(r.summary, k)
                \/ /\ HasOccurrence(r.fulltext, k)
                   /\ row.match_text = FulltextTag \o SnippetAt(r.fulltext, k)]_vars

----------------------------------------------------------------------------
(* Claims about the preview window *)

\* the places of content inside an occurrence of the keyword, occurrences
\* taken at every start place, letters compared without case
Covered(content, keyword) ==
    {i \in 1..Len(content) :
        \E p \in 1..Len(content) :
            /\ MatchAt(content, keyword, p)
            /\ p <= i /\ i < p + Len(keyword)}

\* C18: after _highlight_keyword on a text with nothing highlighted, the
\* highlighted places are exactly those inside an occurrence of the
\* keyword, overlapping occurrences included.
C18_HighlightExhaustive ==
    [][(/\ entries' # <<>> /\ "highlight_keyword" \in DOMAIN entries'
        /\ text_widget.highlight = {}
        /\ _highlight_keyword(entries'.highlight_keyword))
       => text_widget'.highlight
            = Covered(text_widget.content, entries'.highlight_keyword)]_vars

----------------------------------------------------------------------------
(* Claims about the timestamps and the ids *)

\* C19: in every reachable state created_at <= updated_at holds for every
\* record of the store.
C19_CreatedBeforeUpdated == \A r \in papers : r.created_at <= r.updated_at

\* the ids of the records of InMemoryPaperStore
MemIds == {mem_papers[i].id : i \in 1..Len(mem_papers)}

\* no two records of a store have the same id
DistinctIds(table, list) ==
    /\ \A r \in table : \A q \in table : r.id = q.id => r = q
    /\ \A i \in 1..Len(list) : \A j \in 1..Len(list) :
          list[i].id = list[j].id => i = j

\* C20: a step of add_paper that returns an id stores one new record under
\* an id no record of the store had, and leaves every record the store had
\* as it was; after every step the ids of the store are pairwise distinct.
C20_AddNeverOverwrites ==
    [][/\ DistinctIds(papers', mem_papers')
       /\ (/\ last'.op = "add_paper" /\ last'.ret.py = "int"
           /\ <<papers', mem_papers'>> # <<papers, mem_papers>>)
          => /\ last'.ret.v \notin Ids \cup MemIds
             /\ papers \subseteq papers'
             /\ Len(mem_papers') >= Len(mem_papers)
             /\ \A i \in 1..Len(mem_papers) : mem_papers'[i] = mem_papers[i]
             /\ \/ \E r \in papers' :
                      r.id = last'.ret.v /\ papers' = papers \cup {r}
                \/ /\ Len(mem_papers') = Len(mem_papers) + 1
                   /\ mem_papers'[Len(mem_papers')].id = last'.ret.v]_vars

\* the store calls that write
WriteCalls == {"add_paper", "update_paper", "delete_paper"}

\* the texts of the error dialogs of a failed store call
FailureTexts == {"save_failed", "update_failed", "delete_failed"}

\* the last dialog of the handler reports a failed store call
FailureShown ==
    /\ msg # <<>>
    /\ msg[Len(msg)].kind = "showerror"
    /\ msg[Len(msg)].text \in FailureTexts

\* C21: a step in which add_paper, update_paper or delete_paper raises leaves
\* the table and the id sequence as they were and ends with an error dialog
\* whose text is none of the validation warnings and not "not found"; in
\* every state that shows such a dialog the handlers can be run again.
C21_FailedCallKeepsStore ==
    /\ [][(last'.op \in WriteCalls /\ last'.ret.py = "raise") =>
            /\ papers' = papers
            /\ seq' = seq
            /\ FailureShown'
            /\ msg'[Len(msg')].text \notin
                  {"not_found", "select_paper", "title_required",
                   "authors_required", "year_required", "year_invalid"}]_vars
    /\ [](FailureShown => ENABLED (RefreshEditList \/ RefreshList))

\* a delete that failed on the locked file while the record stays stored
C21_Witness ==
    /\ last.op = "delete_paper" /\ last.ret.py = "raise"
    /\ db_lock # "none"
    /\ FailureShown
    /\ papers # {}

\* C22: a constructor of a store class leaves the table papers in place,
\* add_paper and get_all_papers on a constructed store never fail for want
\* of the table, and a constructor or init_db that finds the table leaves
\* the records and the id sequence as they were.
C22_SchemaOnConstruct ==
    [][/\ (last'.op \in FileClasses => has_table')
       /\ (last'.op \in {"add_paper", "get_all_papers"} =>
              last'.ret # Raise("OperationalError"))
       /\ ((last'.op \in FileClasses \cup {"init_db"} /\ has_table) =>
              /\ has_table'
              /\ papers' = papers
              /\ seq' = seq)]_vars

\* C23: get_paper of the id add_paper has just returned gives a dictionary
\* whose tags are the tags passed to add_paper, a list or a text; no step
\* of get_paper or search_papers raises.
C23_TagsRoundTrip ==
    [][/\ (/\ last.op = "add_paper" /\ last.ret.py = "int"
           /\ "tags" \in DOMAIN entries
           /\ Database_get_paper(last.ret.v))
          => /\ last'.ret.py = "dict"
             /\ last'.ret.tags = (IF entries.tags.t = "list"
                                  THEN entries.tags
                                  ELSE PyStr(entries.tags.v))
       /\ (last'.op \in {"get_paper", "search_papers"} =>
              last'.ret.py # "raise")]_vars

\* C24: a step of _update_paper with a record loaded and a form that passes
\* the checks either calls update_paper (confirmed) and then shows in the
\* edit list and in the list tab the rows of the store, or (declined)
\* makes no store call and leaves the store as it was.
C24_UpdateConfirmed ==
    [][(/\ edit_id # Dash
        /\ UpdateChecks(Strip(entries'.title), Strip(entries'.authors),
                        Strip(entries'.year_str)) = "ok"
        /\ _update_paper(entries'))
       => \/ /\ last'.op = "update_paper"
             /\ edit_listbox' = EditRows(Sorted(papers'))
             /\ list_tree' = ListRows(Sorted(papers'))
          \/ /\ msg' = <<Dialog("_update_paper", "askokcancel", "cancel")>>
             /\ last' = NoCall
             /\ papers' = papers]_vars

\* a step that ends a handler whose store call wrote: the step of
\* _save_paper or _update_paper that made the call, or the last step of a
\* _delete_paper that went on after its dialog was closed
WriteDone ==
    \/ /\ last'.op \in WriteCalls
       /\ last'.ret.py # "raise"
       /\ <<papers', last', msg'>> # <<papers, last, msg>>
       /\ delete_pc' = "idle"
    \/ /\ delete_pc # "idle"
       /\ delete_pc' = "idle"

\* C25: when a _save_paper, _update_paper or _delete_paper whose store call
\* succeeded has returned, list_tree and the edit listbox hold the rows of
\* get_all_papers(), in that order.
C25_ViewsFollowStore ==
    [][WriteDone =>
          /\ list_tree' = ListRows(Sorted(papers'))
          /\ edit_listbox' = EditRows(Sorted(papers'))]_vars

\* edit_id_label shows the placeholder or the id of a record of the store
EditIdStored == edit_id = Dash \/ IntValue(edit_id) \in Ids

\* C26 as stated: in every reachable state edit_id_label shows the
\* placeholder or the id of a record of the store.
C26_EditIdExists == EditIdStored

\* C26 (amended): in every state in which _delete_paper does not wait in
\* the dialog that reports its delete, edit_id_label shows the placeholder
\* or the id of a record of the store; no handler runs during that wait,
\* and every step in which _update_paper or _delete_paper calls the store
\* passes the id of a record that is stored.
C26_EditIdExistsAtRest ==
    /\ [](delete_pc # "showinfo" => EditIdStored)
    /\ [](delete_pc = "showinfo" =>
             ~ENABLED (FaultSave \/ FaultUpdate \/ DeletePaper \/ EditSelect
                       \/ RefreshEditList \/ RefreshList))
    /\ [][(last' # last /\ last'.op \in {"update_paper", "delete_paper"})
             => IntValue(edit_id) \in Ids]_vars

\* a record is loaded in the edit form after another one was deleted and
\* the dialog of that delete was closed
C26_Witness ==
    /\ delete_pc = "idle"
    /\ edit_id # Dash
    /\ IntValue(edit_id) \in Ids
    /\ seq > Cardinality(papers)

\* the pass of the loop that comes next ends the loop or moves start_pos
\* forward
NextPassAdvances ==
    highlight_loop.pc = "loop" =>
        LET found == TkSearch(text_widget.content, highlight_loop.keyword,
                              highlight_loop.start_pos)
        IN  found = 0 \/
            found + Len(highlight_loop.keyword) > highlight_loop.start_pos

\* C27: in every state of the loop of _highlight_keyword the next pass
\* breaks or moves start_pos strictly forward, and a loop that has started
\* ends.
C27_HighlightTerminates ==
    /\ []NextPassAdvances
    /\ (highlight_loop.pc = "loop") ~> (highlight_loop.pc = "idle")

\* C28: a step of add_paper that stores a record returns an id that no
\* earlier call of add_paper has returned.
C28_IdNeverReassigned ==
    [][(last'.op = "add_paper" /\ last'.ret.py = "int" /\ papers' # papers)
       => last'.ret.v \notin issued]_vars

\* edit_paper_ids has the id shown in each row of the listbox, and
\* edit_papers_data has those ids as keys
EditIdsMatchRows ==
    /\ Len(edit_paper_ids) = Len(edit_listbox)
    /\ \A i \in 1..Len(edit_listbox) :
          IntToStr(edit_paper_ids[i]) = SelectedIdText(edit_listbox[i])
    /\ DOMAIN edit_papers_data =
          {edit_paper_ids[i] : i \in 1..Len(edit_paper_ids)}

\* C29: in every state the id list and the record dictionary of the edit
\* tab agree with the rows of the listbox, as _refresh_edit_list left them;
\* a step of _on_edit_select on row i loads the record whose id that row
\* shows, for titles with "]" and "[" as for any other.
C29_SelectLoadsRow ==
    /\ []EditIdsMatchRows
    /\ [][\A i \in 1..Len(edit_listbox) :
            (_on_edit_select(i) /\ edit_paper_ids[i] \in Ids) =>
                /\ edit_id' = IntToStr(edit_paper_ids[i])
                /\ last' = Call("get_paper_by_id", PyInt(edit_paper_ids[i]))
                /\ msg' = <<>>]_vars

\* C30: once MainWindow is constructed the checked navigation buttons are
\* exactly the button of the page content_stack shows; a step of
\* switch_page with a name that is no page leaves the checked buttons and
\* the page shown as they were.
C30_OneButtonChecked ==
    /\ [](shown_page # "none" =>
             /\ shown_page \in Pages
             /\ nav_checked = {shown_page})
    /\ [][\A name \in PageNames \ Pages :
            switch_page(name) => UNCHANGED <<nav_checked, shown_page>>]_vars

\* the button of the page shown was clicked again: it toggled off and
\* switch_page checked it again
C30_Witness ==
    /\ last.op = "clicked"
    /\ shown_page = "list"
    /\ nav_checked = {"list"}

====
